---------------------------- MODULE Spec2Model ----------------------------
(***************************************************************************)
(* A model of the retrieval-augmented generation pipeline of the           *)
(* repository: the Vector Index (aimakerspace/vectordatabase.py), the RAG  *)
(* engine and the Tenant Registry (api/rag_lightweight.py), the chunker    *)
(* (DocumentProcessor._create_chunks) and the session bookkeeping of       *)
(* api/app.py that drives the registry.                                    *)
(*                                                                         *)
(* The specifications share the variables:                                 *)
(*   Spec          one tenant's engine: ingestion and queries;             *)
(*   SpecRegistry  the session lifecycle and the registry, two tenants;    *)
(*   SpecVdb       one VectorDatabase driven directly (insert / search);   *)
(*   SpecChunk     runs of the chunker's window loop (with weak fairness   *)
(*                 of the loop, which Python executes to completion);      *)
(*   SpecConcurrent, SpecEmbed, SpecMetadata, SpecUpload, SpecExtract,     *)
(*   SpecResolve   ingestion calls that overlap, embedding batches,        *)
(*                 caller metadata, uploads, text extraction, key choice;  *)
(*   SpecSession   app.py's sessions and conversations with the cleanup    *)
(*                 thread beside the request handlers;                     *)
(*   SpecTurns     the chat and rag-query turns of one session;            *)
(*   SpecSegments  the windowing loop of create_video_segments.            *)
(*                                                                         *)
(* External collaborators (the embedding provider, the language model      *)
(* provider, the Qdrant client) are modelled at their call sites: a        *)
(* provider call either raises or returns, and what it returns is an       *)
(* input of the action.                                                    *)
(*                                                                         *)
(* RAGSystem.__init__ passes model_name to ChatOpenAI, a keyword the       *)
(* ChatOpenAI of this tree does not declare.  The model describes the      *)
(* engine as constructed (the fields __init__ assigns), which is the       *)
(* object every statement about an engine is about.                        *)
(***************************************************************************)
EXTENDS Integers, Sequences, FiniteSets, TLC

VARIABLES
    sessions,       \* app.sessions: session_id -> "unused" | "live" | "gone"
    rag_systems,    \* rag_lightweight.rag_systems: registry key -> engine
    ingested,       \* history: session_id -> payloads index_document stored for it
    inflight,       \* index_document calls suspended at their embeddings await
    last,           \* observation of the last completed engine operation
    vdb,            \* SpecVdb: the VectorDatabase under test
    vres,           \* SpecVdb: observation of the last insert / search
    chunker,        \* SpecChunk: locals of one _create_chunks call
    gather,         \* SpecEmbed: one async_get_embeddings call and its batches
    extractor,      \* SpecExtract: the last text extraction and the pages it read
    resolver,       \* SpecResolve: sessions' credentials and the last resolve_api_key
    app,            \* SpecSession: app.py's sessions, conversations, clock, cleanup thread
    segmenter       \* SpecSegments: locals of one create_video_segments call

vars == <<sessions, rag_systems, ingested, inflight, last, vdb, vres, chunker, gather,
          extractor, resolver, app, segmenter>>

engineVars == <<sessions, rag_systems, ingested, inflight, last>>
vdbVars == <<vdb, vres>>

-----------------------------------------------------------------------------
(* Bounds of the model.                                                    *)

\* Longest chunk list handed to index_document.
MaxChunks == 2
\* Point ids the registered engines are driven to use in total (beyond it the
\* model, not the code, stops accepting uploads).
MaxPoints == 3
\* Largest k passed to search / query.
MaxK == 2
\* index_document calls suspended at the same time.
MaxInflight == 2
\* Texts handed to async_get_embeddings, and the largest batch size.
MaxTexts == 4
MaxBatchSize == 2
\* Inserts made on the VectorDatabase of SpecVdb.
MaxInserts == 3
\* Longest token list handed to the chunker, and the largest chunk size.
MaxTokens == 10
MaxChunkSize == 3
\* Latest pass of the window loop in which the tokenizer is made to raise.
MaxDecodeRaisesAt == 2
\* Iterations of the window loop the model follows in one call; the loop's
\* own bound, len(tokens) // step + 10, stays below it for every input drawn.
IterationCap == MaxTokens + 12

SessionIds == {"s1", "s2"}
DocIds == {"d1", "d2"}
Texts == {"a", "b"}
Metadatas == {[file_name |-> "f1"]}

-----------------------------------------------------------------------------
(* Generic helpers.                                                        *)

EmptyFn == [x \in {} |-> 0]

Put(f, k, v) == [x \in DOMAIN f \cup {k} |-> IF x = k THEN v ELSE f[x]]

Drop(f, k) == [x \in DOMAIN f \ {k} |-> f[x]]

Min(a, b) == IF a <= b THEN a ELSE b

Abs(a) == IF a < 0 THEN -a ELSE a

Sign(a) == IF a < 0 THEN -1 ELSE IF a = 0 THEN 0 ELSE 1

SeqsUpTo(S, n) == UNION {[1..m -> S] : m \in 0..n}

-----------------------------------------------------------------------------
(* Vectors and the four distance measures (DistanceMeasure).  Scores are   *)
(* integers that order vectors as the real-valued measure does: cosine is  *)
(* sign(a.b) * 100 * (a.b)^2 / (|a|^2 |b|^2), Euclidean distance is its    *)
(* square.                                                                 *)

RECURSIVE SumTo(_, _)
SumTo(f, n) == IF n = 0 THEN 0 ELSE f[n] + SumTo(f, n - 1)

Dot(a, b) == SumTo([i \in 1..Len(a) |-> a[i] * b[i]], Len(a))

CosineScore(a, b) ==
    LET d == Dot(a, b)
        n == Dot(a, a) * Dot(b, b)
    IN  IF n = 0 THEN 0 ELSE Sign(d) * ((100 * d * d) \div n)

EuclideanScore(a, b) ==
    SumTo([i \in 1..Len(a) |-> (a[i] - b[i]) * (a[i] - b[i])], Len(a))

ManhattanScore(a, b) == SumTo([i \in 1..Len(a) |-> Abs(a[i] - b[i])], Len(a))

DistanceMeasures == {"cosine", "euclidean", "dot_product", "manhattan"}

\* The score the named measure assigns (what a search "scored by that
\* metric" reports).
MeasureScore(m, a, b) ==
    CASE m = "cosine" -> CosineScore(a, b)
      [] m = "euclidean" -> EuclideanScore(a, b)
      [] m = "dot_product" -> Dot(a, b)
      [] m = "manhattan" -> ManhattanScore(a, b)

\* Metric policy: cosine and dot product are higher-is-better, the two
\* distances lower-is-better.
HigherIsBetter(m) == m \in {"cosine", "dot_product"}

-----------------------------------------------------------------------------
(* VectorDatabase (aimakerspace/vectordatabase.py).  A database is a       *)
(* record of the object's fields and of the Qdrant collection it owns:     *)
(* points maps a point id to [vector, payload].                            *)

NewVectorDatabase ==
    [collection_created |-> FALSE,
     vector_size |-> 0,              \* None
     distance |-> "none",            \* the collection's Qdrant distance
     key_to_id |-> EmptyFn,
     id_to_key |-> EmptyFn,
     next_id |-> 0,
     points |-> EmptyFn]

\* _ensure_collection: creates the collection on the first call only, with
\* the size of that call's vector and (insert passes no measure) cosine.
EnsureCollection(db, vector_size) ==
    IF ~db.collection_created
    THEN [db EXCEPT !.collection_created = TRUE,
                    !.vector_size = vector_size,
                    !.distance = "cosine"]
    ELSE db

\* client.upsert: Qdrant stores the point, or rejects a vector whose length
\* is not the collection's size (the call raises and stores nothing).
QdrantUpsertAccepts(db, vector) == Len(vector) = db.vector_size

\* insert(key, vector, metadata): the id counter and the key maps are
\* updated before the upsert, so they keep their new values when it raises.
\* Returns the database after the call and whether the call raised.
Insert(db, key, vector, metadata) ==
    LET db1 == EnsureCollection(db, Len(vector))
        point_id == db1.next_id
        db2 == [db1 EXCEPT !.next_id = point_id + 1,
                           !.key_to_id = Put(db1.key_to_id, key, point_id),
                           !.id_to_key = Put(db1.id_to_key, point_id, key)]
        payload == Put(metadata, "_key", key)
    IN  IF QdrantUpsertAccepts(db2, vector)
        THEN [db |-> [db2 EXCEPT !.points =
                         Put(db2.points, point_id,
                             [vector |-> vector, payload |-> payload])],
              raised |-> FALSE]
        ELSE [db |-> db2, raised |-> TRUE]

\* The score Qdrant reports for a stored vector: that of the collection's
\* distance, whatever measure the caller of search named.
QdrantScore(db, query, vector) == MeasureScore(db.distance, query, vector)

\* hit a is ranked before hit b (ties keep insertion order).
RankedBefore(db, query, a, b) ==
    LET sa == QdrantScore(db, query, db.points[a].vector)
        sb == QdrantScore(db, query, db.points[b].vector)
    IN  IF HigherIsBetter(db.distance)
        THEN sa > sb \/ (sa = sb /\ a < b)
        ELSE sa < sb \/ (sa = sb /\ a < b)

RECURSIVE TopK(_, _, _, _)
TopK(db, query, ids, k) ==
    IF k = 0 \/ ids = {} THEN <<>>
    ELSE LET best == CHOOSE a \in ids :
                        \A b \in ids \ {a} : RankedBefore(db, query, a, b)
         IN  <<best>> \o TopK(db, query, ids \ {best}, k - 1)

\* client.query_points(query, limit = k): the ids of the k best points,
\* best first.  Qdrant raises on a query of the wrong length.
QueryPointsAccepts(db, query) == Len(query) = db.vector_size

QueryPoints(db, query, k) == TopK(db, query, DOMAIN db.points, k)

\* search(query_vector, k, distance_measure): distance_measure is accepted
\* and never read.  Returns the (key, score) pairs, or raises.
Search(db, query_vector, k, distance_measure) ==
    IF ~db.collection_created
    THEN [raised |-> FALSE, results |-> <<>>]
    ELSE IF ~QueryPointsAccepts(db, query_vector)
    THEN [raised |-> TRUE, results |-> <<>>]
    ELSE LET hits == QueryPoints(db, query_vector, k)
         IN  [raised |-> FALSE,
              results |-> [i \in 1..Len(hits) |->
                  [key |-> db.points[hits[i]].payload["_key"],
                   score |-> QdrantScore(db, query_vector,
                                         db.points[hits[i]].vector)]]]

\* An enriched result that leaves the payload as stored.
EnrichedResultKeepsInternalKey(db, query_vector, id) ==
    LET payload == db.points[id].payload
    IN  Put(Put(payload, "similarity_score",
                QdrantScore(db, query_vector, db.points[id].vector)),
            "key", payload["_key"])

\* One enriched result of search_with_metadata: the payload with `_key`
\* popped, plus similarity_score and key.
EnrichedResult(db, query_vector, id) ==
    LET payload == db.points[id].payload
        key == payload["_key"]
        metadata == Drop(payload, "_key")
    IN  Put(Put(metadata, "similarity_score",
                QdrantScore(db, query_vector, db.points[id].vector)),
            "key", key)

\* search_with_metadata(query_text, k) once the query text is embedded as
\* query_vector (the caller handles the not-created early return).
SearchWithMetadata(db, query_vector, k) ==
    LET hits == QueryPoints(db, query_vector, k)
    IN  [i \in 1..Len(hits) |-> EnrichedResult(db, query_vector, hits[i])]

\* get_metadata(key): the payload, `_key` popped, of the point the key maps
\* to; {} for an unknown key or a point the client does not hold.
GetMetadata(db, key) ==
    IF key \notin DOMAIN db.key_to_id THEN EmptyFn
    ELSE IF db.key_to_id[key] \notin DOMAIN db.points THEN EmptyFn
    ELSE Drop(db.points[db.key_to_id[key]].payload, "_key")

\* The filter functions a caller passes: every record, the records of one
\* document, the records that carry a chunk_text.
FilterFuncs == {"all", "of_d1", "has_chunk_text"}

FilterFunc(f, metadata) ==
    CASE f = "all" -> TRUE
      [] f = "of_d1" -> "document_id" \in DOMAIN metadata /\ metadata["document_id"] = "d1"
      [] f = "has_chunk_text" -> "chunk_text" \in DOMAIN metadata

\* client.scroll: the stored points in id order.
RECURSIVE ScrollIds(_)
ScrollIds(ids) ==
    IF ids = {} THEN <<>>
    ELSE LET first == CHOOSE a \in ids : \A b \in ids : a <= b
         IN  <<first>> \o ScrollIds(ids \ {first})

\* get_vectors_by_metadata_filter(filter_func): for every stored point whose
\* payload without `_key` passes the filter, that payload plus `key`.
GetVectorsByMetadataFilter(db, f) ==
    IF ~db.collection_created THEN <<>>
    ELSE LET ids == ScrollIds(DOMAIN db.points)
             Metadata(id) == Drop(db.points[id].payload, "_key")
             Matches(id) == FilterFunc(f, Metadata(id))
             matching == SelectSeq(ids, Matches)
         IN  [i \in 1..Len(matching) |->
                Put(Metadata(matching[i]), "key", db.points[matching[i]].payload["_key"])]

-----------------------------------------------------------------------------
(* RAGSystem (api/rag_lightweight.py).                                     *)

\* What the embedding provider may return for one text.
ProviderVectors == {<<1, 0>>, <<1, 0, 0>>}

\* A provider call raises, or returns a value.
Raises == [raised |-> TRUE]
Returns(v) == [raised |-> FALSE, value |-> v]

\* async_get_embeddings(chunks): the provider raises, or answers with a list
\* of vectors; nothing in the code ties its length to the number of chunks.
EmbeddingResponses == {Raises} \cup {Returns(vs) : vs \in SeqsUpTo(ProviderVectors, MaxChunks)}

\* get_embedding(question)
QueryEmbeddingResponses == {Raises} \cup {Returns(v) : v \in ProviderVectors}

\* chat_model.run(messages)
ChatResponses == {Raises, Returns("answer")}

NO_INFO == "I couldn't find any relevant information"

\* RAGSystem.__init__: a fresh VectorDatabase and no documents.
NewRAGSystem(api_key) ==
    [api_key |-> api_key,
     vector_db |-> NewVectorDatabase,
     documents |-> EmptyFn]

\* chunk_id = f"{document_id}_chunk_{i}"
ChunkId(document_id, i) == <<document_id, "chunk", i>>

\* chunk_metadata = {"document_id":.., "chunk_index":.., "chunk_text":..,
\* **metadata}: the document's metadata is merged last.
ChunkMetadata(document_id, i, chunk, metadata) ==
    LET own == [document_id |-> document_id, chunk_index |-> i, chunk_text |-> chunk]
    IN  [f \in DOMAIN own \cup DOMAIN metadata |->
            IF f \in DOMAIN metadata THEN metadata[f] ELSE own[f]]

\* for i, (chunk, embedding) in enumerate(zip(chunks, embeddings)): zip stops
\* at the shorter list.
ZipLen(chunks, embeddings) == Min(Len(chunks), Len(embeddings))

\* The insert loop of index_document from 0-based position i on; an insert
\* that raises ends the loop with the records stored so far in place.
RECURSIVE InsertLoop(_, _, _, _, _, _)
InsertLoop(db, document_id, chunks, embeddings, metadata, i) ==
    IF i >= ZipLen(chunks, embeddings)
    THEN [db |-> db, raised |-> FALSE]
    ELSE LET r == Insert(db, ChunkId(document_id, i), embeddings[i + 1],
                         ChunkMetadata(document_id, i, chunks[i + 1], metadata))
         IN  IF r.raised THEN r
             ELSE InsertLoop(r.db, document_id, chunks, embeddings, metadata, i + 1)

\* self.documents[document_id] = {"chunk_count": len(chunks), "metadata": metadata}
DocumentEntry(chunks, metadata) ==
    [chunk_count |-> Len(chunks), metadata |-> metadata]

\* An index_document that answers a failed insert by starting over with an
\* empty index.
IndexDocumentResultReset(engine, document_id, chunks, metadata, response) ==
    IF response.raised
    THEN [engine |-> engine, raised |-> TRUE]
    ELSE LET r == InsertLoop(engine.vector_db, document_id, chunks,
                             response.value, metadata, 0)
         IN  IF r.raised
             THEN [engine |-> [engine EXCEPT !.vector_db = NewVectorDatabase],
                   raised |-> TRUE]
             ELSE [engine |-> [engine EXCEPT
                                 !.vector_db = r.db,
                                 !.documents = Put(engine.documents, document_id,
                                                   DocumentEntry(chunks, metadata))],
                   raised |-> FALSE]

\* index_document after the embeddings await, given the provider's response:
\* the engine afterwards and whether the call raised.
IndexDocumentResult(engine, document_id, chunks, metadata, response) ==
    IF response.raised
    THEN [engine |-> engine, raised |-> TRUE]
    ELSE LET r == InsertLoop(engine.vector_db, document_id, chunks,
                             response.value, metadata, 0)
         IN  IF r.raised
             THEN [engine |-> [engine EXCEPT !.vector_db = r.db], raised |-> TRUE]
             ELSE [engine |-> [engine EXCEPT
                                 !.vector_db = r.db,
                                 !.documents = Put(engine.documents, document_id,
                                                   DocumentEntry(chunks, metadata))],
                   raised |-> FALSE]

\* sum(doc_info.get('chunk_count', 0) for doc_info in self.documents.values())
RECURSIVE SumChunkCounts(_, _)
SumChunkCounts(documents, ids) ==
    IF ids = {} THEN 0
    ELSE LET d == CHOOSE x \in ids : TRUE
         IN  documents[d].chunk_count + SumChunkCounts(documents, ids \ {d})

\* get_document_info(): the counts are read from the bookkeeping alone.
GetDocumentInfo(engine) ==
    [total_documents |-> Cardinality(DOMAIN engine.documents),
     total_chunks |-> SumChunkCounts(engine.documents, DOMAIN engine.documents),
     documents |-> DOMAIN engine.documents]

\* search_relevant_chunks(query, k): search_with_metadata returns [] before
\* embedding anything when no collection exists; otherwise it embeds the
\* query and asks Qdrant.  Any exception is re-raised.
SearchRelevantChunks(engine, qresponse, k) ==
    LET db == engine.vector_db
    IN  IF ~db.collection_created
        THEN [raised |-> FALSE, results |-> <<>>, embed_calls |-> 0]
        ELSE IF qresponse.raised \/ ~QueryPointsAccepts(db, qresponse.value)
        THEN [raised |-> TRUE, results |-> <<>>, embed_calls |-> 1]
        ELSE [raised |-> FALSE,
              results |-> SearchWithMetadata(db, qresponse.value, k),
              embed_calls |-> 1]

\* context_parts: the non-empty chunk_text of every hit, in hit order.
\* The context block joins them with a blank line; it is kept as the
\* sequence of its parts.
ContextParts(results) ==
    LET texts == [i \in 1..Len(results) |->
                    IF "chunk_text" \in DOMAIN results[i]
                    THEN results[i]["chunk_text"] ELSE ""]
        NonEmpty(t) == t # ""
    IN  SelectSeq(texts, NonEmpty)

\* system_message, chosen by mode.
SystemMessage(mode) ==
    IF mode = "topic-explorer"
    THEN "You are a helpful and engaging study assistant for middle school students."
    ELSE "You are a helpful assistant that answers questions based on provided context."

\* rag_prompt, chosen by mode: an instruction text with the call's query
\* and the context block substituted into it.
RagPrompt(mode, context) ==
    [instruction |-> IF mode = "topic-explorer" THEN "three structured sections"
                     ELSE "answer from the context",
     query |-> "query",
     context |-> context]

\* messages, as handed to chat_model.run.
Messages(mode, context) ==
    << [role |-> "system", content |-> SystemMessage(mode)],
       [role |-> "user", content |-> RagPrompt(mode, context)] >>

\* A query that generates an answer whatever the search returned.
QueryResultAlwaysGenerates(engine, qresponse, k, mode, chat) ==
    LET s == SearchRelevantChunks(engine, qresponse, k)
        messages == Messages(mode, ContextParts(s.results))
    IN  IF s.raised
        THEN [outcome |-> "raised", answer |-> "", results |-> <<>>, llm_calls |-> 0,
              messages |-> <<>>]
        ELSE IF chat.raised
        THEN [outcome |-> "raised", answer |-> "", results |-> s.results,
              llm_calls |-> 1, messages |-> messages]
        ELSE [outcome |-> "returned", answer |-> chat.value, results |-> s.results,
              llm_calls |-> 1, messages |-> messages]

\* A query that retrieves a single chunk in topic-explorer mode.
QueryResultModeNarrowsSearch(engine, qresponse, k, mode, chat) ==
    LET s == SearchRelevantChunks(engine, qresponse,
                                  IF mode = "topic-explorer" THEN 1 ELSE k)
        messages == Messages(mode, ContextParts(s.results))
    IN  IF s.raised
        THEN [outcome |-> "raised", answer |-> "", results |-> <<>>, llm_calls |-> 0,
              messages |-> <<>>]
        ELSE IF s.results = <<>>
        THEN [outcome |-> "returned", answer |-> NO_INFO, results |-> <<>>,
              llm_calls |-> 0, messages |-> <<>>]
        ELSE IF chat.raised
        THEN [outcome |-> "raised", answer |-> "", results |-> s.results,
              llm_calls |-> 1, messages |-> messages]
        ELSE [outcome |-> "returned", answer |-> chat.value, results |-> s.results,
              llm_calls |-> 1, messages |-> messages]

\* A query that answers with the fixed text when a provider fails.
QueryResultFallsBack(engine, qresponse, k, mode, chat) ==
    LET s == SearchRelevantChunks(engine, qresponse, k)
        messages == Messages(mode, ContextParts(s.results))
    IN  IF s.raised \/ s.results = <<>>
        THEN [outcome |-> "returned", answer |-> NO_INFO, results |-> <<>>,
              llm_calls |-> 0, messages |-> <<>>]
        ELSE IF chat.raised
        THEN [outcome |-> "returned", answer |-> NO_INFO, results |-> s.results,
              llm_calls |-> 1, messages |-> messages]
        ELSE [outcome |-> "returned", answer |-> chat.value, results |-> s.results,
              llm_calls |-> 1, messages |-> messages]

\* query(query, k, mode): the outcome seen by the caller, the hits used, the
\* messages built and the number of language model calls made.
QueryResult(engine, qresponse, k, mode, chat) ==
    LET s == SearchRelevantChunks(engine, qresponse, k)
        messages == Messages(mode, ContextParts(s.results))
    IN  IF s.raised
        THEN [outcome |-> "raised", answer |-> "", results |-> <<>>, llm_calls |-> 0,
              messages |-> <<>>]
        ELSE IF s.results = <<>>
        THEN [outcome |-> "returned", answer |-> NO_INFO, results |-> <<>>,
              llm_calls |-> 0, messages |-> <<>>]
        ELSE IF chat.raised
        THEN [outcome |-> "raised", answer |-> "", results |-> s.results,
              llm_calls |-> 1, messages |-> messages]
        ELSE [outcome |-> "returned", answer |-> chat.value, results |-> s.results,
              llm_calls |-> 1, messages |-> messages]

\* chat_model.arun(messages): the request is sent with the synchronous
\* client and its return value awaited, so the call raises whether or not
\* the provider answered.
ArunResponse(chat) == Raises

\* self.topic_explorer_system_message / self.rag_system_message, as
\* RAGSystem.__init__ sets them: indented multi-line texts.
EngineSystemMessage(mode) ==
    IF mode = "topic-explorer"
    THEN "\n        You are an educational study companion for middle school students learning Math, Science, or US History. ..."
    ELSE "\n        You are a helpful assistant that answers questions based on provided context.\n        "

\* messages, as query_documents hands them to chat_model.arun.
QueryDocumentsMessages(mode, context) ==
    << [role |-> "system", content |-> EngineSystemMessage(mode)],
       [role |-> "user", content |-> RagPrompt(mode, context)] >>

\* query_documents(query, k, mode): as query, with the engine's system
\* messages and generating through arun.
QueryDocumentsResult(engine, qresponse, k, mode, chat) ==
    LET s == SearchRelevantChunks(engine, qresponse, k)
        generated == ArunResponse(chat)
        messages == QueryDocumentsMessages(mode, ContextParts(s.results))
    IN  IF s.raised
        THEN [outcome |-> "raised", answer |-> "", results |-> <<>>, llm_calls |-> 0,
              messages |-> <<>>]
        ELSE IF s.results = <<>>
        THEN [outcome |-> "returned", answer |-> NO_INFO, results |-> <<>>,
              llm_calls |-> 0, messages |-> <<>>]
        ELSE IF generated.raised
        THEN [outcome |-> "raised", answer |-> "", results |-> s.results,
              llm_calls |-> 1, messages |-> messages]
        ELSE [outcome |-> "returned", answer |-> generated.value,
              results |-> s.results, llm_calls |-> 1, messages |-> messages]

-----------------------------------------------------------------------------
(* The Tenant Registry and the sessions that own its entries.              *)

\* A registry that files every session's engine under one key.
RegistryKeyShared(session_id) == "shared"

\* The key under which a session's engine is registered.
RegistryKey(session_id) == session_id

\* A registry that constructs an engine on every call.
GetOrCreateAlwaysConstructs(registry, session_id, api_key) ==
    Put(registry, RegistryKey(session_id), NewRAGSystem(api_key))

\* get_or_create_rag_system(session_id, api_key, model_name): the registry
\* after the call (the engine is rag_systems[RegistryKey(session_id)]).
GetOrCreateRagSystem(registry, session_id, api_key) ==
    IF RegistryKey(session_id) \notin DOMAIN registry
    THEN Put(registry, RegistryKey(session_id), NewRAGSystem(api_key))
    ELSE registry

ApiKeys == {"k1"}

LiveSessions == {s \in SessionIds : sessions[s] = "live"}

NoObservation ==
    [op |-> "none", session_id |-> "none", document_id |-> "none", chunks |-> <<>>,
     outcome |-> "none", answer |-> "", results |-> <<>>, llm_calls |-> 0,
     messages |-> <<>>]

\* Points held (or refused) so far by every registered engine together.
RECURSIVE IdsUsed(_, _)
IdsUsed(registry, keys) ==
    IF keys = {} THEN 0
    ELSE LET key == CHOOSE x \in keys : TRUE
         IN  registry[key].vector_db.next_id + IdsUsed(registry, keys \ {key})

\* create_session: a fresh uuid4 becomes a live session.
CreateSession(s) ==
    /\ sessions[s] = "unused"
    /\ sessions' = [sessions EXCEPT ![s] = "live"]
    /\ UNCHANGED <<rag_systems, ingested, inflight, last, vdbVars, chunker, gather, extractor, resolver, app, segmenter>>

\* logout: deletes the session (and its conversations); rag_systems is not
\* touched.
Logout(s) ==
    /\ sessions[s] = "live"
    /\ sessions' = [sessions EXCEPT ![s] = "gone"]
    /\ UNCHANGED <<rag_systems, ingested, inflight, last, vdbVars, chunker, gather, extractor, resolver, app, segmenter>>

\* cleanup_inactive_conversations: one pass deletes every session found
\* inactive (and its conversations); rag_systems is not touched.
CleanupInactiveConversations(inactive) ==
    /\ inactive # {}
    /\ inactive \subseteq LiveSessions
    /\ sessions' = [s \in SessionIds |->
                       IF s \in inactive THEN "gone" ELSE sessions[s]]
    /\ UNCHANGED <<rag_systems, ingested, inflight, last, vdbVars, chunker, gather, extractor, resolver, app, segmenter>>

\* The payloads of the points db holds beyond those of before.
NewPayloads(before, db) ==
    {db.points[id].payload : id \in DOMAIN db.points \ DOMAIN before.points}

\* upload_document: the session is validated, the engine looked up or
\* created, and index_document runs on it.  index_document changes nothing
\* before its await of the embedding provider and does not suspend after
\* it, so the call is one step taken when the provider has answered.
UploadDocument(s, api_key, document_id, chunks, metadata, response) ==
    LET registry == GetOrCreateRagSystem(rag_systems, s, api_key)
        engine == registry[RegistryKey(s)]
        res == IndexDocumentResult(engine, document_id, chunks, metadata, response)
    IN  /\ sessions[s] = "live"
        /\ IdsUsed(rag_systems, DOMAIN rag_systems) + Len(chunks) <= MaxPoints
        /\ rag_systems' = [registry EXCEPT ![RegistryKey(s)] = res.engine]
        /\ ingested' = [ingested EXCEPT ![s] =
                           @ \cup NewPayloads(engine.vector_db, res.engine.vector_db)]
        /\ last' = [NoObservation EXCEPT
                      !.op = "index_document",
                      !.session_id = s,
                      !.document_id = document_id,
                      !.chunks = chunks,
                      !.outcome = IF res.raised THEN "raised" ELSE "returned"]
        /\ UNCHANGED <<sessions, inflight, vdbVars, chunker, gather, extractor, resolver, app, segmenter>>

\* rag_system.query(question, k, mode) on the engine of a live session,
\* looked up (or created) through the registry.
Query(s, api_key, qresponse, k, mode, chat) ==
    LET registry == GetOrCreateRagSystem(rag_systems, s, api_key)
        res == QueryResult(registry[RegistryKey(s)], qresponse, k, mode, chat)
    IN  /\ sessions[s] = "live"
        /\ rag_systems' = registry
        /\ last' = [NoObservation EXCEPT
                      !.op = "query",
                      !.session_id = s,
                      !.outcome = res.outcome,
                      !.answer = res.answer,
                      !.results = res.results,
                      !.llm_calls = res.llm_calls,
                      !.messages = res.messages]
        /\ UNCHANGED <<sessions, ingested, inflight, vdbVars, chunker, gather, extractor, resolver, app, segmenter>>

Modes == {"rag", "topic-explorer"}

\* The first n chunks of a document whose chunks read a, b, a, b, ...
DocumentChunks(n) == [i \in 1..n |-> IF i % 2 = 1 THEN "a" ELSE "b"]

\* The observation of SpecVdb before any call.
NoVdbObservation ==
    [op |-> "none", key |-> "none", vector |-> <<>>, k |-> 0, measure |-> "none",
     raised |-> FALSE, error |-> "none", results |-> <<>>]

\* async_get_embeddings before any call.
IdleGather ==
    [pc |-> "idle", texts |-> <<>>, batch_size |-> 1, completed |-> <<>>,
     results |-> EmptyFn, value |-> <<>>]

\* The chunker's locals before any call.
IdleChunker ==
    [pc |-> "idle", len |-> 0, chunk_size |-> 0, overlap |-> 0, encode_raises |-> FALSE,
     decode_raises_at |-> 0, original_count |-> 0,
     start |-> 0, iteration_count |-> 0, max_iterations |-> 0,
     chunks |-> <<>>, ended_by |-> "none"]

\* No extraction has run.
IdleExtractor == [file_type |-> "none", page_count |-> 0, pages |-> {}]

\* app.py before its configuration is read: no session, no server-side key,
\* no resolve_api_key call yet.
IdleResolver ==
    [loaded |-> FALSE,
     server |-> [openai |-> "", together |-> ""],
     sessions |-> EmptyFn,
     call |-> [session_id |-> "none", user_api_key |-> "None", provider |-> "None",
               status |-> 0, api_key |-> "", resolved_provider |-> ""]]

\* No request is being handled by the event loop.
IdleHandler ==
    [pc |-> "idle", endpoint |-> "none", request |-> 0, session_id |-> "none",
     user_api_key |-> "None", provider |-> "None",
     too_long |-> FALSE, free_tier |-> FALSE, api_key |-> ""]

\* app.py right after the module is loaded: no session, no conversation,
\* both server-side keys configured, the cleanup thread about to start its
\* first pass, no request handled yet.
IdleApp ==
    [now |-> 0,
     server |-> [openai |-> "server-openai-key", together |-> "server-together-key"],
     sessions |-> EmptyFn,
     issued |-> <<>>,
     conversations |-> EmptyFn,
     dicts |-> 0,
     cleanup |-> [pc |-> "sleeping", current_time |-> 0, inactive |-> <<>>,
                  step |-> "conversations", ended |-> "none", scanned |-> <<>>,
                  dicts_seen |-> 0],
     handler |-> IdleHandler,
     streams |-> {},
     requests |-> 0,
     response |-> [endpoint |-> "none", request |-> 0, session_id |-> "none",
                   status |-> 0, api_key |-> "", answer |-> "none",
                   engine_called |-> FALSE]]

\* create_video_segments before any call.
IdleSegmenter ==
    [pc |-> "idle", duration |-> 0, chunk_duration |-> 0, overlap |-> 0,
     current_start |-> 0, current_end |-> 0, passes |-> 0]

Init ==
    /\ sessions = [s \in SessionIds |-> "unused"]
    /\ rag_systems = EmptyFn
    /\ ingested = [s \in SessionIds |-> {}]
    /\ inflight = {}
    /\ last = NoObservation
    /\ vdb = NewVectorDatabase
    /\ vres = NoVdbObservation
    /\ chunker = IdleChunker
    /\ gather = IdleGather
    /\ extractor = IdleExtractor
    /\ resolver = IdleResolver
    /\ app = IdleApp
    /\ segmenter = IdleSegmenter

(* Spec: one tenant's engine, driven with documents of up to MaxChunks     *)
(* chunks under two document ids.                                          *)
Next ==
    \/ CreateSession("s1")
    \/ \E api_key \in ApiKeys, d \in DocIds, n \in 0..MaxChunks,
          metadata \in Metadatas, response \in EmbeddingResponses :
            UploadDocument("s1", api_key, d, DocumentChunks(n), metadata, response)
    \/ \E api_key \in ApiKeys, qresponse \in QueryEmbeddingResponses,
          k \in 1..MaxK, mode \in Modes, chat \in ChatResponses :
            Query("s1", api_key, qresponse, k, mode, chat)

Spec == Init /\ [][Next]_vars

(* SpecRegistry: every session operation, with two tenants that upload     *)
(* one-chunk documents under the same document id.                         *)
NextRegistry ==
    \/ \E s \in SessionIds : CreateSession(s)
    \/ \E s \in SessionIds : Logout(s)
    \/ \E inactive \in SUBSET SessionIds : CleanupInactiveConversations(inactive)
    \/ \E s \in SessionIds, api_key \in ApiKeys, text \in Texts,
          metadata \in Metadatas, response \in EmbeddingResponses :
            UploadDocument(s, api_key, "d1", <<text>>, metadata, response)
    \/ \E s \in SessionIds, api_key \in ApiKeys, qresponse \in QueryEmbeddingResponses,
          k \in 1..MaxK, mode \in Modes, chat \in ChatResponses :
            Query(s, api_key, qresponse, k, mode, chat)

SpecRegistry == Init /\ [][NextRegistry]_vars

-----------------------------------------------------------------------------
(* Properties of the registry and of one engine.                           *)

\* The stored payload an enriched search result was built from.
HitPayload(hit) ==
    Put(Drop(Drop(hit, "similarity_score"), "key"), "_key", hit["key"])

\* The hits of a result list all come from payloads ingested for session s.
HitsIngestedBy(results, s) ==
    \A i \in 1..Len(results) : HitPayload(results[i]) \in ingested[s]

\* The engine a session reaches through the registry (when it has one).
HasEngine(s) == RegistryKey(s) \in DOMAIN rag_systems
EngineOf(s) == rag_systems[RegistryKey(s)]

\* C1: tenant isolation.  Whatever query used for a session, and whatever
\* search_relevant_chunks returns on that session's engine for any question
\* and k, is a chunk that an index_document call of the same session stored,
\* never one stored for another session.
C1_TenantIsolation ==
    /\ last.op = "query" => HitsIngestedBy(last.results, last.session_id)
    /\ \A s \in SessionIds : HasEngine(s) =>
          \A qresponse \in QueryEmbeddingResponses, k \in 1..MaxK :
              HitsIngestedBy(SearchRelevantChunks(EngineOf(s), qresponse, k).results, s)

\* Both tenants hold a document under the same id with different text, and
\* a query of one of them has just used hits.
C1_Witness ==
    /\ last.op = "query"
    /\ last.results # <<>>
    /\ \E other \in SessionIds \ {last.session_id} :
          /\ ingested[other] # {}
          /\ ingested[other] \cap ingested[last.session_id] = {}

\* C2: every key of the registry is a session that is still live.
C2_RegistryKeysAreLiveSessions == DOMAIN rag_systems \subseteq LiveSessions

\* The stored records and the bookkeeping of every registered engine are the
\* same after the step as before it, and an engine registered by the step
\* holds neither.
IndexUntouched ==
    /\ \A key \in DOMAIN rag_systems :
          /\ rag_systems'[key].vector_db.points = rag_systems[key].vector_db.points
          /\ rag_systems'[key].documents = rag_systems[key].documents
    /\ \A key \in DOMAIN rag_systems' \ DOMAIN rag_systems :
          /\ rag_systems'[key].vector_db.points = EmptyFn
          /\ rag_systems'[key].documents = EmptyFn

\* The observation after the step is that of an index_document that raised
\* (only the step of that call, or a step that changes no engine, ends so).
IndexDocumentRaised ==
    last'.op = "index_document" /\ last'.outcome = "raised"

\* C3: an index_document that raises is all-or-nothing: the index holds no
\* record created by the call and the bookkeeping has not gained the
\* document.
C3_FailedIngestionStoresNothing ==
    [][IndexDocumentRaised => IndexUntouched]_vars

\* Every record and bookkeeping entry present before the step is present and
\* equal after it.
EarlierDocumentsKept ==
    \A key \in DOMAIN rag_systems :
        /\ key \in DOMAIN rag_systems'
        /\ rag_systems'[key].documents = rag_systems[key].documents
        /\ \A id \in DOMAIN rag_systems[key].vector_db.points :
              /\ id \in DOMAIN rag_systems'[key].vector_db.points
              /\ rag_systems'[key].vector_db.points[id]
                    = rag_systems[key].vector_db.points[id]

\* Every stored record of the engine is among the hits of a search wide
\* enough to return them all.
AllRecordsRetrievable(engine) ==
    LET db == engine.vector_db
        n == Cardinality(DOMAIN db.points)
    IN  \A query \in ProviderVectors : QueryPointsAccepts(db, query) =>
            {HitPayload(SearchWithMetadata(db, query, n)[i]) : i \in 1..n}
                = {db.points[id].payload : id \in DOMAIN db.points}

\* Vectors of the size the engine's collection accepts.
AcceptedVectors(engine) ==
    {v \in ProviderVectors : ~engine.vector_db.collection_created
                                \/ QueryPointsAccepts(engine.vector_db, v)}

\* The engine still serves: an ingestion and a query whose provider calls
\* succeed with vectors of its collection's size do not raise.
EngineStillServes(engine) ==
    \A v \in AcceptedVectors(engine) :
        /\ ~IndexDocumentResult(engine, "d1", <<"a">>, [file_name |-> "f1"],
                                Returns(<<v>>)).raised
        /\ QueryResult(engine, Returns(v), 1, "rag", Returns("answer")).outcome
              = "returned"

\* C4: an index_document that raises leaves the records and the bookkeeping
\* of the documents indexed before it unchanged and retrievable, and the
\* engine goes on accepting index_document and query.
C4_FailedIngestionKeepsEarlierDocuments ==
    /\ [][IndexDocumentRaised => EarlierDocumentsKept]_vars
    /\ [](last.op = "index_document" /\ last.outcome = "raised"
            => \A s \in SessionIds : HasEngine(s) =>
                  AllRecordsRetrievable(EngineOf(s)) /\ EngineStillServes(EngineOf(s)))

\* An ingestion of a document has just failed on an engine that holds the
\* records and the bookkeeping entry of another, earlier document.
C4_Witness ==
    /\ last.op = "index_document" /\ last.outcome = "raised"
    /\ HasEngine(last.session_id)
    /\ LET engine == EngineOf(last.session_id)
       IN  \E d \in DOMAIN engine.documents :
              /\ d # last.document_id
              /\ \E id \in DOMAIN engine.vector_db.points :
                    engine.vector_db.points[id].payload["document_id"] = d

\* The point ids of the records the engine stores for document d.
RecordsOf(engine, d) ==
    {id \in DOMAIN engine.vector_db.points :
        engine.vector_db.points[id].payload["document_id"] = d}

\* C5: after index_document returned for a document of N chunks, the index
\* holds exactly N records of that document, keyed d_chunk_0 .. d_chunk_N-1,
\* record i with chunk_index i and the text of chunk i, and the bookkeeping
\* reports chunk_count N.
C5_SuccessfulIngestionStoresEveryChunk ==
    last.op = "index_document" /\ last.outcome = "returned" =>
        LET engine == EngineOf(last.session_id)
            d == last.document_id
            N == Len(last.chunks)
            points == engine.vector_db.points
        IN  /\ engine.documents[d].chunk_count = N
            /\ Cardinality(RecordsOf(engine, d)) = N
            /\ \A i \in 0..(N - 1) : \E id \in RecordsOf(engine, d) :
                  /\ points[id].payload["_key"] = ChunkId(d, i)
                  /\ points[id].payload["chunk_index"] = i
                  /\ points[id].payload["chunk_text"] = last.chunks[i + 1]

\* The fixed answer, given without a language model call.
NoInformation(res) ==
    res.outcome = "returned" /\ res.answer = NO_INFO /\ res.llm_calls = 0

\* C6: on an engine whose index holds no record, query and query_documents
\* return the fixed "no relevant information" answer, whatever the
\* providers would have done, and call the language model zero times.
C6_EmptyIndexAnswersNoInformation ==
    /\ (last.op = "query" /\ EngineOf(last.session_id).vector_db.points = EmptyFn)
          => NoInformation(last)
    /\ \A s \in SessionIds :
          (HasEngine(s) /\ EngineOf(s).vector_db.points = EmptyFn) =>
              \A qresponse \in QueryEmbeddingResponses, k \in 1..MaxK,
                 mode \in Modes, chat \in ChatResponses :
                  /\ NoInformation(QueryResult(EngineOf(s), qresponse, k, mode, chat))
                  /\ NoInformation(QueryDocumentsResult(EngineOf(s), qresponse, k,
                                                        mode, chat))

\* A query has just been answered on an engine that holds no record.
C6_Witness ==
    /\ last.op = "query"
    /\ NoInformation(last)
    /\ EngineOf(last.session_id).vector_db.points = EmptyFn

-----------------------------------------------------------------------------
(* SpecVdb: one VectorDatabase driven through insert and search.           *)

VdbKeys == {"x", "y"}
VdbVectors == {<<1, 0>>, <<1, 1>>, <<2, 1>>, <<1, 0, 0>>}

\* What a caller may pass as distance_measure: the four names and a string
\* that names no measure.
RequestedMeasures == DistanceMeasures \cup {"chebyshev"}

\* _get_qdrant_distance: a string that names no measure maps to cosine.
\* (search does not call it.)
GetQdrantDistance(distance_measure) ==
    IF distance_measure \in DistanceMeasures THEN distance_measure ELSE "cosine"

\* vector_db.insert(key, vector) with no metadata; an exception is the one
\* the Qdrant client raised.
VdbInsert(key, vector) ==
    LET r == Insert(vdb, key, vector, EmptyFn)
    IN  /\ vdb.next_id < MaxInserts
        /\ vdb' = r.db
        /\ vres' = [NoVdbObservation EXCEPT
                      !.op = "insert", !.key = key, !.vector = vector,
                      !.raised = r.raised,
                      !.error = IF r.raised THEN "QdrantError" ELSE "none"]
        /\ UNCHANGED <<engineVars, chunker, gather, extractor, resolver, app, segmenter>>

\* vector_db.search(query_vector, k, distance_measure)
VdbSearch(query_vector, k, distance_measure) ==
    LET r == Search(vdb, query_vector, k, distance_measure)
    IN  /\ vres' = [NoVdbObservation EXCEPT
                      !.op = "search", !.vector = query_vector, !.k = k,
                      !.measure = distance_measure,
                      !.raised = r.raised,
                      !.error = IF r.raised THEN "QdrantError" ELSE "none",
                      !.results = r.results]
        /\ UNCHANGED <<vdb, engineVars, chunker, gather, extractor, resolver, app, segmenter>>

NextVdb ==
    \/ \E key \in VdbKeys, vector \in VdbVectors : VdbInsert(key, vector)
    \/ \E query_vector \in VdbVectors, k \in 1..MaxK,
          distance_measure \in RequestedMeasures :
            VdbSearch(query_vector, k, distance_measure)

SpecVdb == Init /\ [][NextVdb]_vars

\* C7: a search that names one of the four measures returns results scored
\* by that measure, in that measure's best-first direction (descending for
\* cosine and dot product, ascending for Euclidean and Manhattan).
C7_SearchScoresByRequestedMeasure ==
    (vres.op = "search" /\ vres.measure \in DistanceMeasures /\ ~vres.raised) =>
        /\ \A i \in 1..Len(vres.results) : \E id \in DOMAIN vdb.points :
              /\ vdb.points[id].payload["_key"] = vres.results[i].key
              /\ vres.results[i].score
                    = MeasureScore(vres.measure, vres.vector, vdb.points[id].vector)
        /\ \A i, j \in 1..Len(vres.results) : i < j =>
              IF HigherIsBetter(vres.measure)
              THEN vres.results[i].score >= vres.results[j].score
              ELSE vres.results[i].score <= vres.results[j].score

\* C8: a search that names no known measure fails with UnknownMetric and
\* returns no results.
C8_UnknownMeasureIsRejected ==
    (vres.op = "search" /\ vres.measure \notin DistanceMeasures) =>
        /\ vres.raised
        /\ vres.error = "UnknownMetric"
        /\ vres.results = <<>>

\* C9: every stored vector has the size the first insert fixed, and an
\* insert of a vector of another size fails with DimensionMismatch and
\* leaves the records, the key maps and the id counter as they were.
C9_MismatchedInsertChangesNothing ==
    /\ [](\A id \in DOMAIN vdb.points :
            Len(vdb.points[id].vector) = vdb.vector_size)
    /\ [][(vres'.op = "insert" /\ vdb.collection_created
              /\ Len(vres'.vector) # vdb.vector_size)
            => (vres'.error = "DimensionMismatch" /\ vdb' = vdb)]_vars

-----------------------------------------------------------------------------
(* SpecChunk: calls of DocumentProcessor._create_chunks, one loop          *)
(* iteration per step.  The text is its token count (0 for blank text);    *)
(* tokens are not whitespace, so every window decodes to a non-blank chunk *)
(* and a chunk is the window <<start, end>> it was cut from.               *)

\* tokens = tokens[:100000]
TokenLimit == 100000

\* Python's a // b for b # 0 (floor division).
PyFloorDiv(a, b) ==
    IF b > 0
    THEN (IF a >= 0 THEN a \div b ELSE -((-a + b - 1) \div b))
    ELSE (IF a >= 0 THEN -((a + (-b) - 1) \div (-b)) ELSE (-a) \div (-b))

\* _create_simple_chunks(text, 1000): the words in runs of 1000; the texts
\* drawn are shorter, so the result is the whole text as one chunk.
CreateSimpleChunks(len) == IF len = 0 THEN <<>> ELSE <<<<0, len>>>>

\* The condition of the while loop, without the iteration bound.
LoopGuardUnbounded(c) == c.start < c.len

\* while start < len(tokens) and iteration_count < max_iterations
LoopGuard(c) == c.start < c.len /\ c.iteration_count < c.max_iterations

\* An exception handler that lets the exception go to the caller.
OnExceptionReraises(c) == [c EXCEPT !.pc = "raised", !.chunks = <<>>]

\* except Exception: the chunks collected so far are dropped and the call
\* returns _create_simple_chunks(text, chunk_size=1000).
OnException(c) ==
    [c EXCEPT !.pc = "done", !.ended_by = "fallback",
              !.chunks = CreateSimpleChunks(c.len)]

\* _create_chunks(text, chunk_size, overlap) is called; the tokenizer raises
\* in encode, or in the decode of pass decode_raises_at (0: in none).
ChunkCall(len, chunk_size, overlap, encode_raises, decode_raises_at) ==
    /\ chunker.pc = "idle"
    /\ chunker' = [IdleChunker EXCEPT
                     !.pc = "called", !.len = len, !.chunk_size = chunk_size,
                     !.overlap = overlap, !.encode_raises = encode_raises,
                     !.decode_raises_at = decode_raises_at]
    /\ UNCHANGED <<engineVars, vdbVars, gather, extractor, resolver, app, segmenter>>

\* From the entry of the call to the loop: blank text returns [], a raise of
\* the tokenizer or of the division returns the fallback's chunks.
ChunkEnter ==
    /\ chunker.pc = "called"
    /\ LET c == chunker
           n == Min(c.len, TokenLimit)
           step == c.chunk_size - c.overlap
       IN  chunker' =
             IF c.len = 0
             THEN [c EXCEPT !.pc = "done", !.ended_by = "blank"]
             ELSE IF c.encode_raises \/ step = 0
             THEN OnException(c)
             ELSE [c EXCEPT !.pc = "loop", !.len = n, !.start = 0,
                            !.iteration_count = 0,
                            !.max_iterations = PyFloorDiv(n, step) + 10]
    /\ UNCHANGED <<engineVars, vdbVars, gather, extractor, resolver, app, segmenter>>

\* One evaluation of the loop condition and, when it holds, one pass through
\* the loop body with its two break checks.
ChunkIterate ==
    /\ chunker.pc = "loop"
    /\ LoopGuard(chunker) => chunker.iteration_count < IterationCap
    /\ LET c == chunker
           end == Min(c.start + c.chunk_size, c.len)
           start == end - c.overlap
           body == [c EXCEPT !.iteration_count = @ + 1,
                             !.chunks = Append(@, <<c.start, end>>),
                             !.start = start]
       IN  chunker' =
             IF ~LoopGuard(c)
             THEN [c EXCEPT !.pc = "done",
                            !.ended_by = IF c.start >= c.len THEN "start_reached"
                                         ELSE "iteration_bound"]
             ELSE IF c.iteration_count + 1 = c.decode_raises_at
             THEN OnException(c)
             ELSE IF start >= end \/ start < 0
             THEN [body EXCEPT !.pc = "done", !.ended_by = "no_advance"]
             ELSE IF start >= c.len
             THEN [body EXCEPT !.pc = "done", !.ended_by = "start_reached"]
             ELSE body
    /\ UNCHANGED <<engineVars, vdbVars, gather, extractor, resolver, app, segmenter>>

\* A re-tokenization that may give more tokens than the window held.
RetokenizedLengthsMayGrow(w) == 1..(w[2] - w[1] + 1)

\* len(tokenizer.encode(chunk_text)) for the cleaned text of the chunk cut
\* from window w: the chunk is not blank, and collapsing whitespace leaves
\* it with the window's tokens or fewer.
RetokenizedLengths(w) == 1..(w[2] - w[1])

\* _create_chunks is called again, with the same chunk_size and overlap and
\* the same tokenizer, on the text of chunk i of the call that returned;
\* original_count keeps how many chunks that call returned.
Rechunk(i, len) ==
    /\ chunker.pc = "done"
    /\ chunker.original_count = 0
    /\ chunker.decode_raises_at = 0
    /\ i \in 1..Len(chunker.chunks)
    /\ len \in RetokenizedLengths(chunker.chunks[i])
    /\ chunker' = [IdleChunker EXCEPT
                     !.pc = "called", !.len = len,
                     !.chunk_size = chunker.chunk_size,
                     !.overlap = chunker.overlap,
                     !.encode_raises = chunker.encode_raises,
                     !.original_count = Len(chunker.chunks)]
    /\ UNCHANGED <<engineVars, vdbVars, gather, extractor, resolver, app, segmenter>>

NextChunk ==
    \/ \E len \in 0..MaxTokens, chunk_size \in 1..MaxChunkSize,
          overlap \in (-1)..MaxChunkSize + 1, encode_raises \in BOOLEAN,
          decode_raises_at \in 0..MaxDecodeRaisesAt :
            ChunkCall(len, chunk_size, overlap, encode_raises, decode_raises_at)
    \/ ChunkEnter
    \/ ChunkIterate
    \/ \E i \in 1..IterationCap, len \in 1..MaxTokens : Rechunk(i, len)

\* A call that has started runs on: Python executes it to completion.
SpecChunk == Init /\ [][NextChunk]_vars /\ WF_vars(ChunkEnter \/ ChunkIterate)

\* C10: every call of the chunker with overlap < chunk_size returns,
\* whatever the text.
C10_ChunkerTerminates ==
    (chunker.pc = "called" /\ chunker.overlap < chunker.chunk_size)
        ~> (chunker.pc = "done")

\* A call with 0 < overlap < chunk_size has returned after several passes
\* through the window loop.
C10_Witness ==
    /\ chunker.pc = "done"
    /\ 0 < chunker.overlap /\ chunker.overlap < chunker.chunk_size
    /\ chunker.iteration_count > 1
    /\ Len(chunker.chunks) > 1

\* The windows a finished or running call has emitted so far cover token t.
TokenCovered(c, t) ==
    \E i \in 1..Len(c.chunks) : c.chunks[i][1] <= t /\ t < c.chunks[i][2]

\* C11: when a call with 0 <= overlap < chunk_size has returned, every token of
\* the input lies inside at least one window emitted as a chunk.
C11_EveryTokenInSomeChunk ==
    (chunker.pc = "done" /\ 0 <= chunker.overlap
        /\ chunker.overlap < chunker.chunk_size) =>
        \A t \in 0..(chunker.len - 1) : TokenCovered(chunker, t)

\* The call went through the window loop (not blank text, not the fallback).
InWindowLoop(c) ==
    c.pc = "loop" \/ (c.pc = "done" /\ c.ended_by \notin {"blank", "fallback"})

\* C12: with 0 < overlap < chunk_size the windows start at 0, s, 2s, ... for
\* s = chunk_size - overlap, no window is emitted twice, and it is not the
\* iteration bound that ends the loop.
C12_WindowsAdvanceByStep ==
    (InWindowLoop(chunker) /\ 0 < chunker.overlap
        /\ chunker.overlap < chunker.chunk_size) =>
        /\ \A i \in 1..Len(chunker.chunks) :
              chunker.chunks[i][1] = (i - 1) * (chunker.chunk_size - chunker.overlap)
        /\ \A i, j \in 1..Len(chunker.chunks) :
              i # j => chunker.chunks[i] # chunker.chunks[j]
        /\ chunker.pc = "done" => chunker.ended_by # "iteration_bound"

\* C13: a call with overlap >= chunk_size on non-blank text never runs the
\* window loop (its step would be zero or negative), returns, and does not
\* return an empty chunk list.
C13_OverlapGuard ==
    (chunker.pc \in {"loop", "done"} /\ chunker.overlap >= chunker.chunk_size
        /\ chunker.len > 0 /\ ~chunker.encode_raises) =>
        /\ chunker.pc # "loop"
        /\ chunker.iteration_count = 0
        /\ chunker.chunks # <<>>

-----------------------------------------------------------------------------
(* SpecConcurrent: upload requests of one tenant (under one document id,   *)
(* with either credentials) interleaved on the event loop.                 *)
(* index_document suspends once, at its await of the embedding provider;   *)
(* everything after the await (the insert loop and the bookkeeping) runs   *)
(* without suspending, and query does not suspend.                         *)

\* The credentials a request may resolve to.
Credentials == {"k1", "k2"}

\* upload_document up to the await inside index_document: the session is
\* validated, the engine looked up or created, and the call suspends with
\* nothing stored.
BeginIndexDocument(s, api_key, document_id, chunks, metadata) ==
    LET call == [session_id |-> s, api_key |-> api_key, document_id |-> document_id,
                 chunks |-> chunks, metadata |-> metadata]
    IN  /\ sessions[s] = "live"
        /\ call \notin inflight
        /\ Cardinality(inflight) < MaxInflight
        /\ rag_systems' = GetOrCreateRagSystem(rag_systems, s, api_key)
        /\ inflight' = inflight \cup {call}
        /\ UNCHANGED <<sessions, ingested, last, vdbVars, chunker, gather, extractor, resolver, app, segmenter>>

\* The provider answers a suspended call, which runs to its end.
ResumeIndexDocument(call, response) ==
    LET s == call.session_id
        engine == rag_systems[RegistryKey(s)]
        res == IndexDocumentResult(engine, call.document_id, call.chunks,
                                   call.metadata, response)
    IN  /\ call \in inflight
        /\ IdsUsed(rag_systems, DOMAIN rag_systems) + Len(call.chunks) <= MaxPoints
        /\ inflight' = inflight \ {call}
        /\ rag_systems' = [rag_systems EXCEPT ![RegistryKey(s)] = res.engine]
        /\ ingested' = [ingested EXCEPT ![s] =
                           @ \cup NewPayloads(engine.vector_db, res.engine.vector_db)]
        /\ last' = [NoObservation EXCEPT
                      !.op = "index_document",
                      !.session_id = s,
                      !.document_id = call.document_id,
                      !.chunks = call.chunks,
                      !.outcome = IF res.raised THEN "raised" ELSE "returned"]
        /\ UNCHANGED <<sessions, vdbVars, chunker, gather, extractor, resolver, app, segmenter>>

NextConcurrent ==
    \/ CreateSession("s1")
    \/ \E api_key \in Credentials, n \in 1..MaxChunks, metadata \in Metadatas :
            BeginIndexDocument("s1", api_key, "d1", DocumentChunks(n), metadata)
    \/ \E call \in inflight, response \in EmbeddingResponses :
          ResumeIndexDocument(call, response)
    \/ \E api_key \in Credentials, qresponse \in QueryEmbeddingResponses, k \in 1..MaxK :
            Query("s1", api_key, qresponse, k, "rag", Returns("answer"))

SpecConcurrent == Init /\ [][NextConcurrent]_vars

\* The index holds none of document d's records, or d's ingestion completed
\* and a record for each of its chunks is there.
DocumentWhole(engine, d) ==
    \/ RecordsOf(engine, d) = {}
    \/ /\ d \in DOMAIN engine.documents
       /\ \A i \in 0..(engine.documents[d].chunk_count - 1) :
             \E id \in RecordsOf(engine, d) :
                 engine.vector_db.points[id].payload["chunk_index"] = i

\* C14: at every point at which a search can run, whatever uploads of the
\* tenant are in flight or have ended, the index holds either none or all
\* of each document's records, and the hits a query used belong to
\* documents whose ingestion completed.
C14_NoPartiallyInsertedDocument ==
    /\ \A s \in SessionIds : HasEngine(s) =>
          \A d \in DocIds : DocumentWhole(EngineOf(s), d)
    /\ last.op = "query" =>
          \A i \in 1..Len(last.results) :
              last.results[i]["document_id"] \in DOMAIN EngineOf(last.session_id).documents

-----------------------------------------------------------------------------
(* SpecEmbed: EmbeddingModel.async_get_embeddings on the default provider. *)
(* The texts are cut into batches, one request per batch is issued, the    *)
(* requests complete in any order, and asyncio.gather hands back their     *)
(* results.  A text is a number and the provider's embedding of text t is  *)
(* Embed(t), so that vectors tell the texts apart.                         *)

Embed(t) == <<t, 1>>

\* batches = [list_of_text[i:i + batch_size] for i in range(0, len, batch_size)]
BatchCount(texts, batch_size) == (Len(texts) + batch_size - 1) \div batch_size

Batch(texts, batch_size, b) ==
    SubSeq(texts, (b - 1) * batch_size + 1, Min(b * batch_size, Len(texts)))

\* process_batch: the provider's answer for one batch, one embedding per
\* input in input order.
ProcessBatch(batch) == [i \in 1..Len(batch) |-> Embed(batch[i])]

RECURSIVE Flatten(_)
Flatten(lists) ==
    IF lists = <<>> THEN <<>> ELSE Head(lists) \o Flatten(Tail(lists))

\* Batch results in the order in which the requests completed.
GatherResultsAsCompleted(g) ==
    [i \in 1..Len(g.completed) |-> g.results[g.completed[i]]]

\* asyncio.gather: the results in the order of the awaitables passed.
GatherResults(g) ==
    [b \in 1..BatchCount(g.texts, g.batch_size) |-> g.results[b]]

\* async_get_embeddings(list_of_text) issues its requests.
AsyncGetEmbeddings(texts, batch_size) ==
    /\ gather.pc = "idle"
    /\ gather' = [IdleGather EXCEPT !.pc = "waiting", !.texts = texts,
                                    !.batch_size = batch_size]
    /\ UNCHANGED <<engineVars, vdbVars, chunker, extractor, resolver, app, segmenter>>

PendingBatches(g) ==
    {b \in 1..BatchCount(g.texts, g.batch_size) : b \notin DOMAIN g.results}

\* The request of batch b completes.
BatchCompletes(b) ==
    /\ gather.pc = "waiting"
    /\ b \in PendingBatches(gather)
    /\ gather' = [gather EXCEPT
                    !.completed = Append(@, b),
                    !.results = Put(@, b, ProcessBatch(Batch(gather.texts,
                                                             gather.batch_size, b)))]
    /\ UNCHANGED <<engineVars, vdbVars, chunker, extractor, resolver, app, segmenter>>

\* The request of batch b raises: gather re-raises to the awaiting caller.
BatchRaises(b) ==
    /\ gather.pc = "waiting"
    /\ b \in PendingBatches(gather)
    /\ gather' = [gather EXCEPT !.pc = "raised"]
    /\ UNCHANGED <<engineVars, vdbVars, chunker, extractor, resolver, app, segmenter>>

\* Every request has completed: the flattened results are returned.
GatherReturns ==
    /\ gather.pc = "waiting"
    /\ PendingBatches(gather) = {}
    /\ gather' = [gather EXCEPT !.pc = "returned",
                                !.value = Flatten(GatherResults(gather))]
    /\ UNCHANGED <<engineVars, vdbVars, chunker, extractor, resolver, app, segmenter>>

NextEmbed ==
    \/ \E n \in 0..MaxTexts, batch_size \in 1..MaxBatchSize :
          AsyncGetEmbeddings([i \in 1..n |-> i], batch_size)
    \/ \E b \in 1..MaxTexts : BatchCompletes(b)
    \/ \E b \in 1..MaxTexts : BatchRaises(b)
    \/ GatherReturns

SpecEmbed == Init /\ [][NextEmbed]_vars

\* The records index_document stores on a fresh index for the texts of the
\* call as chunks, given the returned embeddings.
StoredFor(g) ==
    InsertLoop(NewVectorDatabase, "d1", g.texts, g.value, EmptyFn, 0).db.points

\* C15: whatever order the batch requests completed in, the returned list
\* has one vector per text, in input order, and the vector index_document
\* stores with chunk_index i is the embedding of chunks[i].
C15_EmbeddingsKeepInputOrder ==
    gather.pc = "returned" =>
        /\ Len(gather.value) = Len(gather.texts)
        /\ \A i \in 1..Len(gather.texts) : gather.value[i] = Embed(gather.texts[i])
        /\ \A id \in DOMAIN StoredFor(gather) :
              LET point == StoredFor(gather)[id]
              IN  /\ point.payload["chunk_text"]
                        = gather.texts[point.payload["chunk_index"] + 1]
                  /\ point.vector = Embed(point.payload["chunk_text"])

\* A call has returned whose later batch completed before an earlier one.
C15_Witness ==
    /\ gather.pc = "returned"
    /\ Len(gather.completed) >= 2
    /\ gather.completed[1] > gather.completed[2]
    /\ Cardinality(DOMAIN StoredFor(gather)) = Len(gather.texts)

\* The engine registered under key before the step is the one registered
\* after it: built with the same credentials, with its index at least what
\* it was (an engine constructed anew would start empty).
SameEngine(key) ==
    /\ key \in DOMAIN rag_systems'
    /\ rag_systems'[key].api_key = rag_systems[key].api_key
    /\ rag_systems'[key].vector_db.next_id >= rag_systems[key].vector_db.next_id
    /\ DOMAIN rag_systems[key].vector_db.points
          \subseteq DOMAIN rag_systems'[key].vector_db.points
    /\ DOMAIN rag_systems[key].documents \subseteq DOMAIN rag_systems'[key].documents

C17_OneRecordPerKey ==
    /\ \A s \in SessionIds : HasEngine(s) =>
          LET points == EngineOf(s).vector_db.points
          IN  \A a, b \in DOMAIN points :
                  a # b => points[a].payload["_key"] # points[b].payload["_key"]
    /\ last.op = "query" =>
          \A i, j \in 1..Len(last.results) :
              i # j => last.results[i]["key"] # last.results[j]["key"]

(* SpecMetadata: index_document called with document metadata of the       *)
(* caller's choosing.                                                      *)

\* Document metadata a caller of index_document may pass: that of an upload,
\* one that also names a field of the chunk's own metadata, or one that
\* names the field the VectorDatabase keeps the key in.
CallerMetadatas ==
    Metadatas \cup {[file_name |-> "f1", chunk_text |-> "x"],
                    [file_name |-> "f1", _key |-> "k"]}

NextMetadata ==
    \/ CreateSession("s1")
    \/ \E n \in 1..MaxChunks, metadata \in CallerMetadatas,
          response \in EmbeddingResponses :
            UploadDocument("s1", "k1", "d1", DocumentChunks(n), metadata, response)
    \/ \E qresponse \in QueryEmbeddingResponses, k \in 1..MaxK :
            Query("s1", "k1", qresponse, k, "rag", Returns("answer"))

SpecMetadata == Init /\ [][NextMetadata]_vars

\* The points registered engines hold after the step and did not hold
\* before it, as (registry key, point id) pairs.
NewPoints ==
    {kp \in UNION {{<<key, id>> : id \in DOMAIN rag_systems'[key].vector_db.points} :
                      key \in DOMAIN rag_systems'} :
        \/ kp[1] \notin DOMAIN rag_systems
        \/ kp[2] \notin DOMAIN rag_systems[kp[1]].vector_db.points}

\* C18: every record an index_document(d, chunks, metadata) call creates
\* carries document_id d, its ordinal i as chunk_index and chunks[i] as
\* chunk_text, whatever keys the document metadata holds.
C18_RecordsCarryTheirOwnFields ==
    [][\A kp \in NewPoints :
          LET payload == rag_systems'[kp[1]].vector_db.points[kp[2]].payload
          IN  /\ payload["document_id"] = last'.document_id
              /\ \E i \in 0..(Len(last'.chunks) - 1) :
                    /\ payload["_key"] = ChunkId(last'.document_id, i)
                    /\ payload["chunk_index"] = i
                    /\ payload["chunk_text"] = last'.chunks[i + 1]]_vars

-----------------------------------------------------------------------------
(* query: what the mode selects, and what a provider failure does.         *)

\* Two message lists that differ at most in their instruction text: the
\* same roles in the same order, the same query and the same context block.
SameButInstruction(m1, m2) ==
    /\ Len(m1) = Len(m2)
    /\ \A i \in 1..Len(m1) : m1[i].role = m2[i].role
    /\ \A i \in 1..Len(m1) :
          m1[i].role = "user" =>
              /\ m1[i].content.query = m2[i].content.query
              /\ m1[i].content.context = m2[i].content.context

\* C19: for any index state, question and k, query with mode "rag" and
\* query with mode "topic-explorer" retrieve the same chunks in the same
\* order and build the same context block; the messages sent to the
\* language model differ only in their instruction text.
C19_ModeNeverChangesRetrieval ==
    \A s \in SessionIds :
        HasEngine(s) =>
            \A qresponse \in QueryEmbeddingResponses, k \in 1..MaxK,
               chat \in ChatResponses :
                LET rag == QueryResult(EngineOf(s), qresponse, k, "rag", chat)
                    topic == QueryResult(EngineOf(s), qresponse, k,
                                         "topic-explorer", chat)
                IN  /\ rag.results = topic.results
                    /\ ContextParts(rag.results) = ContextParts(topic.results)
                    /\ SameButInstruction(rag.messages, topic.messages)

\* A topic-explorer query has just sent two retrieved chunks to the
\* language model.
C19_Witness ==
    /\ last.op = "query"
    /\ Len(last.results) = 2
    /\ Len(last.messages) = 2
    /\ last.messages[1].content = SystemMessage("topic-explorer")
    /\ Len(last.messages[2].content.context) = 2

\* C20: when the embedding provider or the language model provider fails
\* during query, query raises to its caller and returns no answer string,
\* neither the fixed no-information answer nor any other.
C20_ProviderFailureRaises ==
    \A s \in SessionIds :
        HasEngine(s) =>
            \A qresponse \in QueryEmbeddingResponses, k \in 1..MaxK,
               mode \in Modes, chat \in ChatResponses :
                LET search == SearchRelevantChunks(EngineOf(s), qresponse, k)
                    res == QueryResult(EngineOf(s), qresponse, k, mode, chat)
                    embedding_failed == search.embed_calls = 1 /\ qresponse.raised
                    model_failed == res.llm_calls = 1 /\ chat.raised
                IN  (embedding_failed \/ model_failed) =>
                        res.outcome = "raised" /\ res.answer = ""

\* A query has just raised after its language model call, made with
\* retrieved chunks.
C20_Witness ==
    /\ last.op = "query"
    /\ last.outcome = "raised"
    /\ last.llm_calls = 1
    /\ last.results # <<>>

-----------------------------------------------------------------------------
(* SpecUpload: files uploaded through process_document and then            *)
(* index_document.  A text is its token list, written as runs of blank     *)
(* (whitespace-only) and non-blank tokens.                                 *)

\* chunk_size and overlap as process_document leaves them to default.
DefaultChunkSize == 1000
DefaultOverlap == 200

Run(blank, n) == [blank |-> blank, n |-> n]

\* len(tokenizer.encode(text))
RECURSIVE TokenCount(_)
TokenCount(text) ==
    IF text = <<>> THEN 0 ELSE Head(text).n + TokenCount(Tail(text))

\* not text.strip()
IsBlank(text) == \A i \in 1..Len(text) : text[i].blank \/ text[i].n = 0

\* Tokens before run i.
RunStart(text, i) == TokenCount(SubSeq(text, 1, i - 1))

\* not chunk_text.strip(), for the chunk decoded from tokens[start:end] of
\* the first len tokens.
BlankWindow(text, start, end) ==
    \A i \in 1..Len(text) :
        \/ text[i].blank
        \/ text[i].n = 0
        \/ RunStart(text, i) >= end
        \/ RunStart(text, i) + text[i].n <= start

\* One evaluation of the while condition of _create_chunks and, when it
\* holds, one pass through the body with its two break checks.
WindowStep(st, len, chunk_size, overlap, max_iterations) ==
    IF st.done THEN st
    ELSE IF ~(st.start < len /\ st.iteration_count < max_iterations)
    THEN [st EXCEPT !.done = TRUE]
    ELSE LET end == Min(st.start + chunk_size, len)
             start == end - overlap
         IN  [start |-> start,
              iteration_count |-> st.iteration_count + 1,
              windows |-> Append(st.windows, <<st.start, end>>),
              done |-> start >= end \/ start < 0 \/ start >= len]

\* n evaluations of the loop condition, one after the other.
RECURSIVE WindowRun(_, _, _, _, _, _)
WindowRun(st, n, len, chunk_size, overlap, max_iterations) ==
    IF n <= 0 THEN st
    ELSE IF n = 1 THEN WindowStep(st, len, chunk_size, overlap, max_iterations)
    ELSE LET half == n \div 2
             mid == WindowRun(st, half, len, chunk_size, overlap, max_iterations)
         IN  IF mid.done THEN mid
             ELSE WindowRun(mid, n - half, len, chunk_size, overlap, max_iterations)

\* The windows tokens[start:end] the loop goes through; it makes at most
\* max_iterations passes.
WindowLoop(len, chunk_size, overlap, max_iterations) ==
    WindowRun([start |-> 0, iteration_count |-> 0, windows |-> <<>>,
               done |-> FALSE],
              max_iterations, len, chunk_size, overlap, max_iterations).windows

\* _create_chunks(text, chunk_size, overlap): the windows whose cleaned text
\* is not blank; [] for a blank text; the fallback's chunks when the
\* tokenizer or the division raises.
CreateChunks(text, chunk_size, overlap, encode_raises) ==
    LET len == Min(TokenCount(text), TokenLimit)
        step == chunk_size - overlap
        NotBlank(w) == ~BlankWindow(text, w[1], w[2])
    IN  IF IsBlank(text) THEN <<>>
        ELSE IF encode_raises \/ step = 0
        THEN CreateSimpleChunks(TokenCount(text))
        ELSE SelectSeq(WindowLoop(len, chunk_size, overlap,
                                  PyFloorDiv(len, step) + 10),
                       NotBlank)

\* process_document(file_path): raises for a missing, oversized or
\* unsupported file and for a text that is blank (a failed extraction gives
\* ""); otherwise returns the chunks of the text.
ProcessDocument(file) ==
    IF ~file.readable \/ IsBlank(file.text)
    THEN [raised |-> TRUE, chunk_count |-> 0]
    ELSE [raised |-> FALSE,
          chunk_count |-> Len(CreateChunks(file.text, DefaultChunkSize,
                                           DefaultOverlap, file.encode_raises))]

\* Longest run of tokens in an uploaded text before its first visible one.
MaxLeadingBlank == 100000

\* The texts uploaded: nothing, blank, a word, a word after a blank, and a
\* word after a blank of MaxLeadingBlank tokens.
FileTexts ==
    { <<>>, <<Run(TRUE, 1)>>, <<Run(FALSE, 1)>>, <<Run(TRUE, 1), Run(FALSE, 1)>>,
      <<Run(TRUE, MaxLeadingBlank), Run(FALSE, 1)>> }

Files ==
    [readable : BOOLEAN, text : FileTexts, encode_raises : BOOLEAN]

\* upload_document: process_document on the stored file; when it returns,
\* index_document on the tenant's engine under the file's name, with what
\* the embedding provider answers.
UploadFile(s, api_key, file) ==
    LET processed == ProcessDocument(file)
    IN  IF processed.raised
        THEN /\ sessions[s] = "live"
             /\ \E filename \in {"d1"} :
                  last' = [NoObservation EXCEPT
                             !.op = "process_document",
                             !.session_id = s,
                             !.document_id = filename,
                             !.outcome = "raised"]
             /\ UNCHANGED <<sessions, rag_systems, ingested, inflight, vdbVars,
                            chunker, gather, extractor, resolver, app, segmenter>>
        ELSE /\ processed.chunk_count <= MaxChunks
             /\ \E filename \in {"d1"}, metadata \in Metadatas,
                   response \in EmbeddingResponses :
                  UploadDocument(s, api_key, filename,
                                 DocumentChunks(processed.chunk_count),
                                 metadata, response)

NextUpload ==
    \/ CreateSession("s1")
    \/ \E file \in Files : UploadFile("s1", "k1", file)
    \/ \E qresponse \in QueryEmbeddingResponses, k \in 1..MaxK :
            Query("s1", "k1", qresponse, k, "rag", Returns("answer"))

SpecUpload == Init /\ [][NextUpload]_vars

\* C21: ingestion never proceeds with zero chunks: process_document either
\* raises or returns at least one chunk, so index_document is never reached
\* with an empty chunk list, and no sequence of uploads records a document
\* whose chunk_count is 0 in an engine's bookkeeping.
C21_NoDocumentWithZeroChunks ==
    /\ last.op = "index_document" => Len(last.chunks) >= 1
    /\ \A key \in DOMAIN rag_systems :
          \A d \in DOMAIN rag_systems[key].documents :
              rag_systems[key].documents[d].chunk_count # 0

-----------------------------------------------------------------------------
(* The VectorDatabase's results.                                           *)

\* C22: search(query_vector, k, metric) never raises and returns exactly
\* min(k, number of stored vectors) results: fewer than k only when the
\* index holds fewer than k vectors, and none on an empty index.
C22_SearchReturnsMinKAndNeverRaises ==
    vres.op = "search" =>
        /\ ~vres.raised
        /\ Len(vres.results) = Min(vres.k, Cardinality(DOMAIN vdb.points))

\* A result names its record: it carries no `_key`, its `key` is the key
\* some stored point was inserted with, and its other fields are that
\* point's metadata.
NamesItsRecord(db, result) ==
    /\ "_key" \notin DOMAIN result
    /\ "key" \in DOMAIN result
    /\ \E id \in DOMAIN db.points :
          /\ db.id_to_key[id] = result["key"]
          /\ \A f \in DOMAIN db.points[id].payload \ {"_key", "key", "similarity_score"} :
                f \in DOMAIN result /\ result[f] = db.points[id].payload[f]

\* C23: no result of search_with_metadata, get_metadata or the metadata
\* filter contains the internal field `_key`; the record's key is exposed
\* only as `key`, and is the key the record was inserted with.
C23_InternalKeyNeverExposed ==
    /\ last.op = "query" =>
          \A i \in 1..Len(last.results) :
              NamesItsRecord(EngineOf(last.session_id).vector_db, last.results[i])
    /\ \A s \in SessionIds :
          HasEngine(s) =>
              LET db == EngineOf(s).vector_db
              IN  /\ \A key \in DOMAIN db.key_to_id :
                        "_key" \notin DOMAIN GetMetadata(db, key)
                  /\ \A f \in FilterFuncs :
                        \A i \in 1..Len(GetVectorsByMetadataFilter(db, f)) :
                            NamesItsRecord(db, GetVectorsByMetadataFilter(db, f)[i])
                  /\ \A q \in ProviderVectors, k \in 1..MaxK :
                        QueryPointsAccepts(db, q) =>
                            \A i \in 1..Len(SearchWithMetadata(db, q, k)) :
                                NamesItsRecord(db, SearchWithMetadata(db, q, k)[i])

\* A query has just returned a record that was stored with document
\* metadata naming `_key`.
C23_Witness ==
    /\ last.op = "query"
    /\ Len(last.results) >= 1
    /\ last.results[1]["key"] = ChunkId("d1", 0)
    /\ \E id \in DOMAIN EngineOf(last.session_id).vector_db.points :
          /\ EngineOf(last.session_id).vector_db.id_to_key[id] = last.results[1]["key"]
          /\ EngineOf(last.session_id).vector_db.points[id].payload["_key"]
                = ChunkId("d1", 0)
    /\ [file_name |-> "f1", _key |-> "k"] \in
          {EngineOf(last.session_id).documents[d].metadata :
              d \in DOMAIN EngineOf(last.session_id).documents}

-----------------------------------------------------------------------------
(* The chunker's exception handler.                                        *)

\* The step the call is about to take raises: encode or the division by
\* chunk_size - overlap on entry, decode in a pass of the loop.
RaisesNow(c) ==
    \/ c.pc = "called" /\ c.len > 0 /\ (c.encode_raises \/ c.chunk_size = c.overlap)
    \/ c.pc = "loop" /\ LoopGuard(c) /\ c.iteration_count + 1 = c.decode_raises_at

\* C24: when tokenization or any step of the token-window chunking raises,
\* the chunker returns the result of word-count chunking; on non-empty
\* input it never raises.
C24_FallbackOnException ==
    /\ [](chunker.pc # "raised")
    /\ [][RaisesNow(chunker) =>
            /\ chunker'.pc = "done"
            /\ chunker'.chunks = CreateSimpleChunks(chunker.len)]_vars

\* The second pass of the window loop raised and the call returned the
\* fallback's single chunk.
C24_Witness ==
    /\ chunker.pc = "done"
    /\ chunker.ended_by = "fallback"
    /\ ~chunker.encode_raises
    /\ chunker.chunk_size # chunker.overlap
    /\ chunker.decode_raises_at = 2
    /\ chunker.iteration_count = 1
    /\ chunker.chunks = << <<0, chunker.len>> >>

-----------------------------------------------------------------------------
(* SpecExtract: text extraction from PDFs and presentations of up to       *)
(* MaxPages pages or slides.  A page contributes when its text is not      *)
(* empty and its extraction did not raise.                                 *)

\* The number of pages processed of a large PDF, and the page count above
\* which a PDF is large.
PageCap == 50
LargePdfPages == 100

\* Pages and slides of the largest document extracted.
MaxPages == 102

\* _extract_text_pypdf2 / _extract_text_pdfplumber: max_pages.
PdfMaxPages(page_count) ==
    IF page_count > LargePdfPages THEN PageCap ELSE page_count

\* The pages of a PDF whose text is added: those of pdf.pages[:max_pages]
\* that give text.
ExtractPdfPages(page_count, silent) == (1..PdfMaxPages(page_count)) \ silent

\* _extract_text_pptx: every slide of prs.slides adds its header and text.
ExtractPptxSlides(slide_count) == 1..slide_count

\* Pages that give no text (empty, or their extraction raises).
SilentPages == {{}, {1}, {PageCap}}

ExtractTextPdf(page_count, silent) ==
    /\ extractor' = [file_type |-> "pdf", page_count |-> page_count,
                     pages |-> ExtractPdfPages(page_count, silent)]
    /\ UNCHANGED <<engineVars, vdbVars, chunker, gather, resolver, app, segmenter>>

ExtractTextPptx(slide_count) ==
    /\ extractor' = [file_type |-> "pptx", page_count |-> slide_count,
                     pages |-> ExtractPptxSlides(slide_count)]
    /\ UNCHANGED <<engineVars, vdbVars, chunker, gather, resolver, app, segmenter>>

NextExtract ==
    \/ \E page_count \in 0..MaxPages, silent \in SilentPages :
            ExtractTextPdf(page_count, silent)
    \/ \E slide_count \in 0..MaxPages : ExtractTextPptx(slide_count)

SpecExtract == Init /\ [][NextExtract]_vars

\* C26: of a PDF or a presentation with more than 50 pages or slides only
\* the first 50 are processed: no page or slide beyond the cap contributes
\* text to the extraction result.
C26_NothingBeyondThePageCap ==
    extractor.page_count > PageCap =>
        \A p \in extractor.pages : p <= PageCap

-----------------------------------------------------------------------------
(* The engine's bookkeeping.                                               *)

\* C27: a document's bookkeeping entry, once created by a successful
\* index_document, is never modified for as long as the tenant's engine
\* exists, also when another upload uses the same document_id.
C27_BookkeepingEntryIsImmutable ==
    [][\A key \in DOMAIN rag_systems \cap DOMAIN rag_systems' :
          \A d \in DOMAIN rag_systems[key].documents :
              /\ d \in DOMAIN rag_systems'[key].documents
              /\ rag_systems'[key].documents[d] = rag_systems[key].documents[d]]_vars

\* C28: query is a synchronous wrapper of query_documents: for the same
\* index state, question, k and mode both send the same system message and
\* the same user message to the language model and return its answer.
C28_QueryWrapsQueryDocuments ==
    \A s \in SessionIds :
        HasEngine(s) =>
            \A qresponse \in QueryEmbeddingResponses, k \in 1..MaxK,
               mode \in Modes, chat \in ChatResponses :
                LET sync == QueryResult(EngineOf(s), qresponse, k, mode, chat)
                    async == QueryDocumentsResult(EngineOf(s), qresponse, k, mode, chat)
                IN  /\ sync.messages = async.messages
                    /\ sync.outcome = async.outcome
                    /\ sync.answer = async.answer

-----------------------------------------------------------------------------
(* SpecResolve: app.py's sessions with their credentials, and              *)
(* resolve_api_key.  None is the value "None"; it and "" are the two       *)
(* falsy strings.                                                          *)

None == "None"
Falsy(v) == v = None \/ v = ""

MAX_FREE_TURNS == 3
\* Free turns a session is followed through.
MaxTurns == 4

UserApiKeys == {None, "", "user-key"}
SessionApiKeys == {None, "", "session-key"}
SessionProviders == {"openai", "together"}
\* The provider argument: absent, one of the two validated names, or what an
\* X-Provider header carries unvalidated.
ProviderArgs == {None, "openai", "together", "other"}
ServerOpenAiKeys == {"", "server-openai-key"}
ServerTogetherKeys == {"", "server-together-key"}

\* The module is loaded: the server-side keys are read from the environment.
LoadConfig(openai_key, together_key) ==
    /\ ~resolver.loaded
    /\ resolver' = [resolver EXCEPT
                      !.loaded = TRUE,
                      !.server = [openai |-> openai_key, together |-> together_key]]
    /\ UNCHANGED <<engineVars, vdbVars, chunker, gather, extractor, app, segmenter>>

\* create_session(auth_type, api_key, provider, email, ...)
NewSession(s, api_key, provider, is_whitelisted) ==
    /\ resolver.loaded
    /\ s \notin DOMAIN resolver.sessions
    /\ resolver' = [resolver EXCEPT
                      !.sessions = Put(@, s,
                          [is_whitelisted |-> is_whitelisted,
                           free_turns_used |-> 0,
                           has_own_api_key |-> api_key # None,
                           api_key |-> api_key,
                           provider |-> provider])]
    /\ UNCHANGED <<engineVars, vdbVars, chunker, gather, extractor, app, segmenter>>

\* A chat or RAG turn has been answered: the counter of a session without
\* its own key that is not whitelisted goes up by one.
CountFreeTurn(s) ==
    /\ s \in DOMAIN resolver.sessions
    /\ ~resolver.sessions[s].has_own_api_key
    /\ ~resolver.sessions[s].is_whitelisted
    /\ resolver.sessions[s].free_turns_used < MaxTurns
    /\ resolver' = [resolver EXCEPT !.sessions[s].free_turns_used = @ + 1]
    /\ UNCHANGED <<engineVars, vdbVars, chunker, gather, extractor, app, segmenter>>

\* A caller that holds the module's sessions dict assigns a session's
\* is_whitelisted and free_turns_used directly, as the tests of
\* resolve_api_key do.
AssignSessionFields(s, is_whitelisted, free_turns_used) ==
    /\ s \in DOMAIN resolver.sessions
    /\ resolver' = [resolver EXCEPT
                      !.sessions[s].is_whitelisted = is_whitelisted,
                      !.sessions[s].free_turns_used = free_turns_used]
    /\ UNCHANGED <<engineVars, vdbVars, chunker, gather, extractor, app, segmenter>>

\* A resolve_api_key that prefers the session's key to the user's.
ResolveApiKeySessionFirst(r, session_id, user_api_key, provider) ==
    IF session_id \notin DOMAIN r.sessions
    THEN [status |-> 401, api_key |-> "", resolved_provider |-> ""]
    ELSE LET session == r.sessions[session_id]
             resolved_provider == IF Falsy(provider) THEN session.provider ELSE provider
         IN  IF session.has_own_api_key /\ ~Falsy(session.api_key)
             THEN [status |-> 200, api_key |-> session.api_key,
                   resolved_provider |-> resolved_provider]
             ELSE IF ~Falsy(user_api_key)
             THEN [status |-> 200, api_key |-> user_api_key,
                   resolved_provider |-> resolved_provider]
             ELSE [status |-> 500, api_key |-> "", resolved_provider |-> ""]

\* A resolve_api_key that counts the turns of whitelisted sessions too.
ResolveApiKeyIgnoresWhitelist(r, session_id, user_api_key, provider) ==
    IF session_id \notin DOMAIN r.sessions
    THEN [status |-> 401, api_key |-> "", resolved_provider |-> ""]
    ELSE LET session == r.sessions[session_id]
             resolved_provider == IF Falsy(provider) THEN session.provider ELSE provider
             server_key == IF resolved_provider = "together" THEN r.server.together
                           ELSE r.server.openai
         IN  IF ~Falsy(user_api_key)
             THEN [status |-> 200, api_key |-> user_api_key,
                   resolved_provider |-> resolved_provider]
             ELSE IF session.has_own_api_key /\ ~Falsy(session.api_key)
             THEN [status |-> 200, api_key |-> session.api_key,
                   resolved_provider |-> resolved_provider]
             ELSE IF session.free_turns_used >= MAX_FREE_TURNS
             THEN [status |-> 403, api_key |-> "", resolved_provider |-> ""]
             ELSE IF Falsy(server_key)
             THEN [status |-> 500, api_key |-> "", resolved_provider |-> ""]
             ELSE [status |-> 200, api_key |-> server_key,
                   resolved_provider |-> resolved_provider]

\* resolve_api_key(session_id, user_api_key, provider): the pair returned
\* (status 200) or the status of the HTTPException raised.
ResolveApiKey(r, session_id, user_api_key, provider) ==
    IF session_id \notin DOMAIN r.sessions
    THEN [status |-> 401, api_key |-> "", resolved_provider |-> ""]
    ELSE LET session == r.sessions[session_id]
             resolved_provider == IF Falsy(provider) THEN session.provider ELSE provider
             server_key == IF resolved_provider = "together" THEN r.server.together
                           ELSE r.server.openai
         IN  IF ~Falsy(user_api_key)
             THEN [status |-> 200, api_key |-> user_api_key,
                   resolved_provider |-> resolved_provider]
             ELSE IF session.has_own_api_key /\ ~Falsy(session.api_key)
             THEN [status |-> 200, api_key |-> session.api_key,
                   resolved_provider |-> resolved_provider]
             ELSE IF session.free_turns_used >= MAX_FREE_TURNS /\ ~session.is_whitelisted
             THEN [status |-> 403, api_key |-> "", resolved_provider |-> ""]
             ELSE IF Falsy(server_key)
             THEN [status |-> 500, api_key |-> "", resolved_provider |-> ""]
             ELSE [status |-> 200, api_key |-> server_key,
                   resolved_provider |-> resolved_provider]

\* A request calls resolve_api_key.
Resolve(session_id, user_api_key, provider) ==
    LET res == ResolveApiKey(resolver, session_id, user_api_key, provider)
    IN  /\ resolver.loaded
        /\ resolver' = [resolver EXCEPT
                          !.call = [session_id |-> session_id,
                                    user_api_key |-> user_api_key,
                                    provider |-> provider,
                                    status |-> res.status,
                                    api_key |-> res.api_key,
                                    resolved_provider |-> res.resolved_provider]]
        /\ UNCHANGED <<engineVars, vdbVars, chunker, gather, extractor, app, segmenter>>

NextResolve ==
    \/ \E openai_key \in ServerOpenAiKeys, together_key \in ServerTogetherKeys :
            LoadConfig(openai_key, together_key)
    \/ \E api_key \in SessionApiKeys, provider \in SessionProviders,
          is_whitelisted \in BOOLEAN :
            NewSession("s1", api_key, provider, is_whitelisted)
    \/ CountFreeTurn("s1")
    \/ \E is_whitelisted \in BOOLEAN, free_turns_used \in {MAX_FREE_TURNS, MaxTurns} :
            AssignSessionFields("s1", is_whitelisted, free_turns_used)
    \/ \E session_id \in SessionIds, user_api_key \in UserApiKeys,
          provider \in ProviderArgs :
            Resolve(session_id, user_api_key, provider)

SpecResolve == Init /\ [][NextResolve]_vars

\* The session the last call named, when it exists.
CallSession == resolver.sessions[resolver.call.session_id]

\* C29: resolve_api_key returns the user-supplied key when one is given, else
\* the session's stored key when the session has one, else the server-side
\* key of the resolved provider; the provider returned is the provider
\* argument when given, else the session's provider.
C29_KeyPriority ==
    resolver.call.status = 200 =>
        /\ resolver.call.resolved_provider =
              (IF Falsy(resolver.call.provider) THEN CallSession.provider
               ELSE resolver.call.provider)
        /\ resolver.call.api_key =
              (IF ~Falsy(resolver.call.user_api_key) THEN resolver.call.user_api_key
               ELSE IF ~Falsy(CallSession.api_key) THEN CallSession.api_key
               ELSE IF resolver.call.resolved_provider = "together"
               THEN resolver.server.together
               ELSE resolver.server.openai)

\* A call that gave both a key and a provider, on a session that stores
\* its own key under another provider, has returned.
C29_Witness ==
    /\ resolver.call.status = 200
    /\ resolver.call.user_api_key = "user-key"
    /\ resolver.call.provider = "together"
    /\ CallSession.api_key = "session-key"
    /\ CallSession.provider = "openai"
    /\ resolver.call.api_key = "user-key"

\* C30: with no user-supplied key and no session-stored key, the call is
\* refused with 403 exactly when the session is not whitelisted and has
\* used MAX_FREE_TURNS turns or more; a whitelisted session is never
\* refused for its turn count.
C30_FreeTierLimit ==
    [][(/\ resolver'.call # resolver.call
        /\ resolver'.call.session_id \in DOMAIN resolver.sessions
        /\ Falsy(resolver'.call.user_api_key)
        /\ Falsy(resolver.sessions[resolver'.call.session_id].api_key)) =>
           (resolver'.call.status = 403
               <=> (/\ ~resolver.sessions[resolver'.call.session_id].is_whitelisted
                    /\ resolver.sessions[resolver'.call.session_id].free_turns_used
                          >= MAX_FREE_TURNS))]_vars

\* A whitelisted session with neither key and MAX_FREE_TURNS turns used has
\* just been given the server-side key.
C30_Witness ==
    /\ resolver.call.session_id \in DOMAIN resolver.sessions
    /\ Falsy(resolver.call.user_api_key)
    /\ CallSession.api_key = None
    /\ CallSession.is_whitelisted
    /\ CallSession.free_turns_used = MAX_FREE_TURNS
    /\ resolver.call.status = 200
    /\ resolver.call.api_key = "server-together-key"

-----------------------------------------------------------------------------
\* The document ids that have at least one record in the engine's index.
IndexedDocumentIds(engine) ==
    {engine.vector_db.points[id].payload["document_id"] :
        id \in DOMAIN engine.vector_db.points}

\* C35: after any sequence of index_document calls that returned or raised,
\* get_document_info's total_chunks is the number of records the engine's
\* index holds, and its document count is the number of distinct document
\* ids that have records in the index.
C35_DocumentInfoMatchesIndex ==
    \A s \in SessionIds : HasEngine(s) =>
        LET engine == EngineOf(s)
            info == GetDocumentInfo(engine)
        IN  /\ info.total_chunks = Cardinality(DOMAIN engine.vector_db.points)
            /\ info.total_documents = Cardinality(IndexedDocumentIds(engine))

-----------------------------------------------------------------------------
(* SpecSession and SpecTurns: app.py's sessions and conversations, the     *)
(* request handlers that run one at a time on the event loop, the          *)
(* response streams of chat, and the cleanup thread, which runs beside     *)
(* the event loop and can be scheduled between any two steps of a          *)
(* handler.  Time is counted in minutes.  A conversations entry carries    *)
(* the identity (dict) of the inner dict a stream may still hold after     *)
(* the entry is deleted.  logout is followed as one step.                  *)

SESSION_TIMEOUT_MINUTES == 60
\* The clock is followed up to MaxClock, in steps drawn from TickSteps.
MaxClock == 62
TickSteps == {30, 31}
\* Requests followed by SpecSession and by SpecTurns.
MaxSessionRequests == 1
MaxTurnRequests == 4

appOthers == <<engineVars, vdbVars, chunker, gather, extractor, resolver, segmenter>>

\* Time passes.
Tick(d) ==
    /\ app.now + d <= MaxClock
    /\ app' = [app EXCEPT !.now = @ + d]
    /\ UNCHANGED appOthers

\* create_session(auth_type, api_key, provider, email, ...) under a fresh
\* uuid; issued keeps the order of insertion into the sessions dict.
\* turns_on_server_key is history, not a field of the program: the turns
\* of the session that were completed with a server-side key.
AppCreateSession(s, api_key, is_whitelisted) ==
    /\ app.handler.pc = "idle"
    /\ \A i \in 1..Len(app.issued) : app.issued[i] # s
    /\ app' = [app EXCEPT
                 !.issued = Append(@, s),
                 !.sessions = Put(@, s,
                     [is_whitelisted |-> is_whitelisted,
                      free_turns_used |-> 0,
                      has_own_api_key |-> api_key # "None",
                      api_key |-> api_key,
                      provider |-> "together",
                      last_access |-> app.now,
                      turns_on_server_key |-> 0])]
    /\ UNCHANGED appOthers

\* get_session(session_id) on the module's state a: the state afterwards
\* (last_access refreshed) and whether a session was returned.
GetSession(a, session_id) ==
    IF session_id \notin DOMAIN a.sessions
    THEN [app |-> a, found |-> FALSE]
    ELSE [app |-> [a EXCEPT !.sessions[session_id].last_access = a.now],
          found |-> TRUE]

\* The response a handler ends with.
Respond(a, endpoint, status, answer) ==
    [a EXCEPT !.handler = IdleHandler,
              !.response = [endpoint |-> endpoint, request |-> a.handler.request,
                            session_id |-> a.handler.session_id, status |-> status,
                            api_key |-> a.handler.api_key, answer |-> answer,
                            engine_called |-> FALSE]]

\* logout: get_session, then the session's conversations and the session
\* are deleted.
AppLogout(s) ==
    LET g == GetSession(app, s)
    IN  /\ app.handler.pc = "idle"
        /\ app' = IF ~g.found
                  THEN [app EXCEPT !.response.endpoint = "logout",
                                   !.response.session_id = s,
                                   !.response.status = 401]
                  ELSE [g.app EXCEPT !.conversations = Drop(@, s),
                                     !.sessions = Drop(@, s),
                                     !.response.endpoint = "logout",
                                     !.response.session_id = s,
                                     !.response.status = 200]
        /\ UNCHANGED appOthers

\* A session of the scan, in the order sessions.items() yields them, is
\* inactive when current_time - last_access > SESSION_TIMEOUT_MINUTES.
InactiveSessions(a, current_time) ==
    SelectSeq(a.issued,
              LAMBDA s : /\ s \in DOMAIN a.sessions
                         /\ current_time - a.sessions[s].last_access
                               > SESSION_TIMEOUT_MINUTES)

\* cleanup_inactive_conversations, first loop: the pass reads the clock and
\* lists the inactive sessions.  With nothing to delete the pass is over.
CleanupScan ==
    LET inactive == InactiveSessions(app, app.now)
    IN  /\ app.cleanup.pc = "sleeping"
        /\ app' = [app EXCEPT !.cleanup =
                     [pc |-> IF inactive = <<>> THEN "sleeping" ELSE "deleting",
                      current_time |-> app.now,
                      inactive |-> inactive,
                      step |-> "conversations",
                      ended |-> IF inactive = <<>> THEN "completed" ELSE "none",
                      scanned |-> inactive,
                      dicts_seen |-> app.dicts]]
        /\ UNCHANGED appOthers

\* Second loop, first statement: if session_id in conversations: del.
CleanupDeleteConversations ==
    /\ app.cleanup.pc = "deleting"
    /\ app.cleanup.step = "conversations"
    /\ app' = [app EXCEPT !.conversations = Drop(@, Head(app.cleanup.inactive)),
                          !.cleanup.step = "session"]
    /\ UNCHANGED appOthers

\* A cleanup thread without cleanup_loop's handler: the KeyError ends the
\* thread.
CleanupDeleteSessionEndsThread ==
    LET s == Head(app.cleanup.inactive)
        rest == Tail(app.cleanup.inactive)
    IN  /\ app.cleanup.pc = "deleting"
        /\ app.cleanup.step = "session"
        /\ app' = IF s \notin DOMAIN app.sessions
                  THEN [app EXCEPT !.cleanup.pc = "dead",
                                   !.cleanup.ended = "raised"]
                  ELSE [app EXCEPT !.sessions = Drop(@, s),
                                   !.cleanup.inactive = rest,
                                   !.cleanup.step = "conversations",
                                   !.cleanup.pc = IF rest = <<>> THEN "sleeping"
                                                  ELSE "deleting",
                                   !.cleanup.ended = IF rest = <<>> THEN "completed"
                                                     ELSE "none"]
        /\ UNCHANGED appOthers

\* Second loop, second statement: del sessions[session_id].  A session that
\* is gone by now makes it raise KeyError, which ends the pass in
\* cleanup_loop's handler; the thread sleeps and starts the next pass.
CleanupDeleteSession ==
    LET s == Head(app.cleanup.inactive)
        rest == Tail(app.cleanup.inactive)
    IN  /\ app.cleanup.pc = "deleting"
        /\ app.cleanup.step = "session"
        /\ app' = IF s \notin DOMAIN app.sessions
                  THEN [app EXCEPT !.cleanup.pc = "sleeping",
                                   !.cleanup.inactive = <<>>,
                                   !.cleanup.step = "conversations",
                                   !.cleanup.ended = "raised"]
                  ELSE [app EXCEPT !.sessions = Drop(@, s),
                                   !.cleanup.inactive = rest,
                                   !.cleanup.step = "conversations",
                                   !.cleanup.pc = IF rest = <<>> THEN "sleeping"
                                                  ELSE "deleting",
                                   !.cleanup.ended = IF rest = <<>> THEN "completed"
                                                     ELSE "none"]
        /\ UNCHANGED appOthers

\* The steps of the cleanup thread.
CleanupThread == CleanupScan \/ CleanupDeleteConversations \/ CleanupDeleteSession

\* The session a handler holds is free-tier when it has no own key and is
\* not whitelisted (neither field changes after create_session).
FreeTier(session) == ~session.has_own_api_key /\ ~session.is_whitelisted

\* chat and rag_query begin alike: session = get_session(session_id); a
\* missing session raises 401 inside the handler's try, whose
\* "except Exception" turns every HTTPException into a 500.
RequestGetSession(endpoint, r, s, user_api_key, provider, too_long) ==
    LET g == GetSession(app, s)
        handler == [pc |-> "resolve", endpoint |-> endpoint, request |-> r,
                    session_id |-> s, user_api_key |-> user_api_key,
                    provider |-> provider,
                    too_long |-> too_long,
                    free_tier |-> g.found /\ FreeTier(app.sessions[s]),
                    api_key |-> ""]
    IN  /\ app.handler.pc = "idle"
        /\ r = app.requests + 1
        /\ app' = IF ~g.found
                  THEN Respond([app EXCEPT !.requests = r, !.handler = handler],
                               endpoint, 500, "none")
                  ELSE [g.app EXCEPT !.requests = r, !.handler = handler]
        /\ UNCHANGED appOthers

\* resolve_api_key (which calls get_session again), then the token limit
\* of free-tier sessions.
RequestResolve ==
    LET h == app.handler
        g == GetSession(app, h.session_id)
        res == ResolveApiKey([sessions |-> g.app.sessions, server |-> app.server],
                             h.session_id, h.user_api_key, h.provider)
    IN  /\ h.pc = "resolve"
        /\ app' = IF res.status # 200
                  THEN Respond(g.app, h.endpoint, 500, "none")
                  ELSE IF h.free_tier /\ h.too_long
                  THEN Respond(g.app, h.endpoint, 500, "none")
                  ELSE [g.app EXCEPT !.handler.pc = "serve",
                                     !.handler.api_key = res.api_key]
        /\ UNCHANGED appOthers

\* get_session_conversations(session_id), then the conversation of the
\* request is created when missing: the module state afterwards.
GetSessionConversations(a, session_id, conversation_id) ==
    LET a1 == IF session_id \in DOMAIN a.conversations THEN a
              ELSE [a EXCEPT !.dicts = @ + 1,
                             !.conversations =
                                Put(@, session_id,
                                    [dict |-> a.dicts + 1, convs |-> EmptyFn])]
    IN  IF conversation_id \in DOMAIN a1.conversations[session_id].convs THEN a1
        ELSE [a1 EXCEPT !.conversations[session_id].convs =
                            Put(@, conversation_id, <<>>)]

UserMessage(r) == [role |-> "user", request |-> r]
AssistantMessage(r) == [role |-> "assistant", request |-> r]

\* chat, from the OpenAI client on: the user message is appended and the
\* StreamingResponse is returned; generate() runs later.
ChatAppend(conversation_id) ==
    LET h == app.handler
        a1 == GetSessionConversations(app, h.session_id, conversation_id)
        a2 == [a1 EXCEPT !.conversations[h.session_id].convs[conversation_id] =
                            Append(@, UserMessage(h.request))]
        stream == [request |-> h.request, session_id |-> h.session_id,
                   dict |-> a2.conversations[h.session_id].dict,
                   conversation_id |-> conversation_id,
                   api_key |-> h.api_key,
                   free_tier |-> h.free_tier]
    IN  /\ h.pc = "serve"
        /\ h.endpoint = "chat"
        /\ app' = Respond([a2 EXCEPT !.streams = @ \cup {stream}],
                          "chat", 200, "streaming")
        /\ UNCHANGED appOthers

\* The key is one of the server-side keys.
IsServerKey(a, api_key) == api_key \in {a.server.openai, a.server.together}

\* The messages of the conversation a stream writes to, while the dict it
\* holds is still the session's entry in conversations.
StreamVisible(a, st) ==
    /\ st.session_id \in DOMAIN a.conversations
    /\ a.conversations[st.session_id].dict = st.dict

\* generate() ran to its end: the assistant message is appended and the
\* free turn of a free-tier session is counted.
GenerateCompletes(st) ==
    LET a1 == IF StreamVisible(app, st)
              THEN [app EXCEPT
                      !.conversations[st.session_id].convs[st.conversation_id] =
                          Append(@, AssistantMessage(st.request))]
              ELSE app
        a2 == IF st.free_tier /\ st.session_id \in DOMAIN a1.sessions
              THEN [a1 EXCEPT !.sessions[st.session_id].free_turns_used = @ + 1]
              ELSE a1
        a3 == IF IsServerKey(app, st.api_key) /\ st.session_id \in DOMAIN a2.sessions
              THEN [a2 EXCEPT !.sessions[st.session_id].turns_on_server_key = @ + 1]
              ELSE a2
    IN  /\ st \in app.streams
        /\ app.handler.pc = "idle"
        /\ app' = [a3 EXCEPT !.streams = @ \ {st},
                             !.response = [endpoint |-> "generate",
                                           request |-> st.request,
                                           session_id |-> st.session_id,
                                           status |-> 200,
                                           api_key |-> st.api_key,
                                           answer |-> "text",
                                           engine_called |-> FALSE]]
        /\ UNCHANGED appOthers

\* messages.pop() when the list is not empty.
PopLast(messages) ==
    IF messages = <<>> THEN messages ELSE SubSeq(messages, 1, Len(messages) - 1)

\* The provider call of generate() raised: the handler pops the last
\* message of the conversation and re-raises.
GenerateFails(st) ==
    LET a1 == IF StreamVisible(app, st)
              THEN [app EXCEPT
                      !.conversations[st.session_id].convs[st.conversation_id] =
                          PopLast(@)]
              ELSE app
    IN  /\ st \in app.streams
        /\ app.handler.pc = "idle"
        /\ app' = [a1 EXCEPT !.streams = @ \ {st},
                             !.response = [endpoint |-> "generate",
                                           request |-> st.request,
                                           session_id |-> st.session_id,
                                           status |-> 500,
                                           api_key |-> st.api_key,
                                           answer |-> "none",
                                           engine_called |-> FALSE]]
        /\ UNCHANGED appOthers

\* def query(self, query, k=3, mode="rag"): the parameters a caller can
\* name; rag_query names k, mode, model_name and system_message.
QueryParameters == {"query", "k", "mode"}
RagQueryKeywords == {"k", "mode", "model_name", "system_message"}

\* Python binds a call when every keyword names a parameter; otherwise the
\* call raises TypeError before the body runs.
CallBinds(parameters, keywords) == keywords \subseteq parameters

\* rag_query after a bound query call returned answer: both messages are
\* appended and the free turn of a free-tier session is counted.
RagQueryStore(a, conversation_id, answer) ==
    LET h == a.handler
        a1 == GetSessionConversations(a, h.session_id, conversation_id)
        a2 == [a1 EXCEPT !.conversations[h.session_id].convs[conversation_id] =
                            @ \o <<UserMessage(h.request), AssistantMessage(h.request)>>]
        a3 == IF h.free_tier /\ h.session_id \in DOMAIN a2.sessions
              THEN [a2 EXCEPT !.sessions[h.session_id].free_turns_used = @ + 1]
              ELSE a2
    IN  IF IsServerKey(a, h.api_key) /\ h.session_id \in DOMAIN a3.sessions
        THEN [a3 EXCEPT !.sessions[h.session_id].turns_on_server_key = @ + 1]
        ELSE a3

\* rag_query, from get_or_create_rag_system on: the engine's query is
\* called with the keywords above; any exception becomes a 500.
RagQueryCall(conversation_id, qresponse, k, mode, chat) ==
    LET h == app.handler
        registry == GetOrCreateRagSystem(rag_systems, h.session_id, h.api_key)
        res == QueryResult(registry[RegistryKey(h.session_id)], qresponse, k, mode, chat)
    IN  /\ h.pc = "serve"
        /\ h.endpoint = "rag_query"
        /\ rag_systems' = registry
        /\ app' = IF ~CallBinds(QueryParameters, RagQueryKeywords)
                  THEN Respond(app, "rag_query", 500, "none")
                  ELSE IF res.outcome = "raised"
                  THEN [Respond(app, "rag_query", 500, "none")
                          EXCEPT !.response.engine_called = TRUE]
                  ELSE [Respond(RagQueryStore(app, conversation_id, res.answer),
                                "rag_query", 200, res.answer)
                          EXCEPT !.response.engine_called = TRUE]
        /\ UNCHANGED <<sessions, ingested, inflight, last, vdbVars, chunker, gather,
                       extractor, resolver, segmenter>>

(* SpecSession: two sessions that store their own key, the clock, chat     *)
(* requests, logout and the cleanup thread, which is scheduled again and   *)
(* again (cleanup_loop is a "while True" that survives every exception).   *)
NextSession ==
    \/ \E d \in TickSteps : Tick(d)
    \/ \E s \in SessionIds : AppCreateSession(s, "session-key", FALSE)
    \/ \E s \in SessionIds : AppLogout(s)
    \/ CleanupScan
    \/ CleanupDeleteConversations
    \/ CleanupDeleteSession
    \/ \E r \in 1..MaxSessionRequests, s \in SessionIds :
            RequestGetSession("chat", r, s, "None", "openai", FALSE)
    \/ RequestResolve
    \/ ChatAppend("c1")
    \/ \E st \in app.streams : GenerateCompletes(st)
    \/ \E st \in app.streams : GenerateFails(st)

SpecSession == Init /\ [][NextSession]_vars /\ WF_vars(CleanupThread)

(* SpecTurns: the turns of one session, of any kind create_session makes,  *)
(* with chat streams that overlap and rag-query requests.                  *)
NextTurns ==
    \/ \E api_key \in {"None", "session-key"}, is_whitelisted \in BOOLEAN :
            (api_key = "None" \/ ~is_whitelisted)
            /\ AppCreateSession("s1", api_key, is_whitelisted)
    \/ \E r \in 1..MaxTurnRequests, endpoint \in {"chat", "rag_query"},
          user_api_key \in {"None", "user-key"}, provider \in {"openai", "together"},
          too_long \in BOOLEAN :
            RequestGetSession(endpoint, r, "s1", user_api_key, provider, too_long)
    \/ RequestResolve
    \/ ChatAppend("c1")
    \/ \E st \in app.streams : GenerateCompletes(st)
    \/ \E st \in app.streams : GenerateFails(st)
    \/ \E qresponse \in QueryEmbeddingResponses, chat \in ChatResponses :
            RagQueryCall("c1", qresponse, 1, "rag", chat)

SpecTurns == Init /\ [][NextTurns]_vars

-----------------------------------------------------------------------------
\* Session s exists and its last access is older than the timeout.
Inactive(s) ==
    /\ s \in DOMAIN app.sessions
    /\ app.now - app.sessions[s].last_access > SESSION_TIMEOUT_MINUTES

\* The cleanup thread removes session s in this step.
CleanupRemoves(s) ==
    /\ app.cleanup.pc = "deleting"
    /\ app'.cleanup # app.cleanup
    /\ s \in DOMAIN app.sessions
    /\ s \notin DOMAIN app'.sessions

C32_ConversationsNeverOutliveTheirSession ==
    DOMAIN app.conversations \subseteq DOMAIN app.sessions

\* C34: cleanup never removes a session whose most recent access is less
\* than SESSION_TIMEOUT_MINUTES old, also when the access lands between the
\* pass's scan and its deletions.
C34_CleanupSparesRecentlyAccessedSessions ==
    [][\A s \in SessionIds :
          CleanupRemoves(s) =>
              app.now - app.sessions[s].last_access >= SESSION_TIMEOUT_MINUTES]_vars

\* C33: a session that is not whitelisted and has no own key completes at
\* most MAX_FREE_TURNS turns on the server-side key, and its free_turns_used
\* never exceeds MAX_FREE_TURNS, whatever the interleaving of its chat and
\* rag-query requests.
C33_FreeTurnsNeverExceedTheLimit ==
    \A s \in DOMAIN app.sessions :
        FreeTier(app.sessions[s]) =>
            /\ app.sessions[s].turns_on_server_key <= MAX_FREE_TURNS
            /\ app.sessions[s].free_turns_used <= MAX_FREE_TURNS

\* The step ends generate() of stream st with the provider call failed.
FailsNow(st) ==
    /\ st \in app.streams
    /\ st \notin app'.streams
    /\ app'.response.endpoint = "generate"
    /\ app'.response.request = st.request
    /\ app'.response.status = 500

\* C36: when the provider call of a chat request fails, exactly the
\* request's own user message is removed from the conversation and no
\* other message, whatever other requests did on the conversation
\* meanwhile.
C36_FailedChatRemovesItsOwnMessage ==
    [][\A st \in app.streams :
          FailsNow(st) /\ StreamVisible(app, st) =>
              app'.conversations[st.session_id].convs[st.conversation_id]
                = SelectSeq(app.conversations[st.session_id].convs[st.conversation_id],
                            LAMBDA m : m # UserMessage(st.request))]_vars

\* C37: every rag-query request of a valid session that is allowed a turn
\* reaches the engine's query (with the request's model and developer
\* message), and what the client gets is the engine's answer.
C37_RagQueryReachesTheEngine ==
    app.response.endpoint = "rag_query" /\ app.response.api_key # "" =>
        /\ app.response.engine_called
        /\ app.response.status = 200 => app.response.answer \in {"answer", NO_INFO}

\* C38: free_turns_used counts exactly the completed turns that were served
\* with a server-side key: a turn served with a user-supplied or
\* session-stored key never consumes a free turn.
C38_FreeTurnsCountServerKeyTurns ==
    \A s \in DOMAIN app.sessions :
        app.sessions[s].free_turns_used = app.sessions[s].turns_on_server_key

-----------------------------------------------------------------------------
(* SpecSegments: the windowing loop of YouTubeProcessor's                  *)
(* create_video_segments, in whole seconds.  Python runs the loop until    *)
(* its condition fails (weak fairness of the loop step).                   *)

DefaultChunkDuration == 40
DefaultSegmentOverlap == 5
\* Longest video followed, and the passes of the loop followed in one call
\* (more than any call that leaves the loop makes).
MaxDuration == 90
MaxPasses == 100

Durations == {0, 1, 12, MaxDuration}
ChunkDurations == {1, 3, DefaultSegmentOverlap, 6, DefaultChunkDuration}
SegmentOverlaps == {0, 2, DefaultSegmentOverlap, 7}

\* create_video_segments(url, chunk_duration, overlap) on a video of the
\* given duration, up to the loop: current_start = 0.
CreateVideoSegments(duration, chunk_duration, overlap) ==
    /\ segmenter.pc \in {"idle", "done"}
    /\ segmenter' = [pc |-> "loop", duration |-> duration,
                     chunk_duration |-> chunk_duration, overlap |-> overlap,
                     current_start |-> 0, current_end |-> 0, passes |-> 0]
    /\ UNCHANGED <<engineVars, vdbVars, chunker, gather, extractor, resolver, app>>

\* process_youtube_video(url, chunk_duration): the overlap is the default.
ProcessYoutubeVideo(duration, chunk_duration) ==
    CreateVideoSegments(duration, chunk_duration, DefaultSegmentOverlap)

\* current_start += chunk_duration - overlap
SegmentStep(c) == c.chunk_duration - c.overlap

\* One pass of "while current_start < video_info['duration']", or the exit
\* from the loop when the condition fails.
SegmentIterate ==
    LET c == segmenter
    IN  /\ c.pc = "loop"
        /\ IF c.current_start < c.duration
           THEN /\ c.passes < MaxPasses
                /\ segmenter' = [c EXCEPT
                                   !.current_end = Min(c.current_start + c.chunk_duration,
                                                       c.duration),
                                   !.current_start = @ + SegmentStep(c),
                                   !.passes = @ + 1]
           ELSE segmenter' = [c EXCEPT !.pc = "done"]
        /\ UNCHANGED <<engineVars, vdbVars, chunker, gather, extractor, resolver, app>>

NextSegments ==
    \/ \E duration \in Durations, chunk_duration \in ChunkDurations,
          overlap \in SegmentOverlaps :
            CreateVideoSegments(duration, chunk_duration, overlap)
    \/ \E duration \in Durations, chunk_duration \in ChunkDurations :
            ProcessYoutubeVideo(duration, chunk_duration)
    \/ SegmentIterate

SpecSegments == Init /\ [][NextSegments]_vars /\ WF_vars(SegmentIterate)

\* C39: the windowing loop of create_video_segments terminates for every
\* duration, every chunk_duration > 0 and every overlap, also when
\* process_youtube_video is given a chunk_duration not greater than the
\* default overlap: every pass moves current_start towards the duration,
\* and a call that entered the loop leaves it.
C39_SegmentLoopTerminates ==
    /\ [][segmenter'.passes = segmenter.passes + 1 =>
            segmenter'.current_start > segmenter.current_start]_vars
    /\ segmenter.pc = "loop" ~> segmenter.pc = "done"

=============================================================================
